---- MODULE Spec2Model ----
(***************************************************************************)
(* Reti validator registry and staking pools                               *)
(* (contracts/contracts/stakingPool.algo.ts: class StakingPool and class   *)
(* ValidatorRegistry).  One validator (id 1) with up to MAX_POOLS pools.    *)
(* Every externally triggered method is one atomic action: a failing       *)
(* assert or an arithmetic underflow anywhere in the call, inner calls     *)
(* included, rejects the whole transaction group, so the action is simply  *)
(* not enabled.                                                            *)
(*                                                                         *)
(* Amounts are in units of 1 ALGO (1_000_000 microAlgo) and the fixed      *)
(* sizes of the contract are scaled down to keep the state space finite.   *)
(***************************************************************************)
EXTENDS Integers, Sequences, FiniteSets, TLC

VARIABLES
    now,              \* globals.latestTimestamp
    validatorState,   \* ValidatorList(1).value.State (+ RewardTokenHeldBack)
    validatorPools,   \* ValidatorList(1).value.Pools
    StakerPoolSet,    \* registry box map: staker -> 4 pool keys (<<>> = no box)
    poolState,        \* global state of each StakingPool instance
    Stakers,          \* the 'stakers' box of each pool (<<>> = not created)
    balance,          \* algo balance of each pool's account
    tokenBalance,     \* pool #1's balance of the reward token
    tokenPayoutRatio, \* registry's cached PoolTokenPayoutRatio snapshot
    paidOut,          \* algo received so far by the commission address and the fee sink
    txnCount,         \* number of transaction groups confirmed so far
    lastAdd,          \* the registry addStake confirmed last, if no call came after it
    tokensReceived,   \* reward tokens each staker's account has received
    numValidators,    \* registry global: number of validators added so far
    ValidatorList     \* registry box map: validator id -> id, owner, manager, config

vars == <<now, validatorState, validatorPools, StakerPoolSet, poolState,
          Stakers, balance, tokenBalance, tokenPayoutRatio, paidOut, txnCount,
          lastAdd, tokensReceived, numValidators, ValidatorList>>

-----------------------------------------------------------------------------
(* Bounds of the model *)

\* number of staker accounts
NumAccounts == 2
\* MAX_NODES * MAX_POOLS_PER_NODE = 48 in the contract, scaled down
MAX_POOLS == 2
\* 80 in the contract, scaled down
MAX_STAKERS_PER_POOL == 2
\* the clock advances in steps of TickSecs, at most MaxTicks times
TickSecs == 900
MaxTicks == 3
\* smallest and largest payment a staker sends with addStake
MinStakeAmount == 2
MaxStakeAmount == 3
\* largest explicit amount of a removeStake (0 asks for everything)
MaxUnstakeAmount == 3
\* a reward deposit into a pool account
RewardDeposit == 10
\* a run is at most MaxTxns confirmed transaction groups long
MaxTxns == 7
\* the most reward tokens the validator sends to pool #1
MaxTokenBalance == 10

(* Configuration of validator 1 (ValidatorConfig) *)
PayoutEveryXMins == 30
PercentToValidator == 100000
MinEntryStake == 2
MaxAlgoPerPool == 5
RewardTokenID == 1
RewardPerPayout == 10

(* Amounts of the platform, in model units *)
\* getMbrAmounts().AddStakerMbr
AddStakerMbr == 1
\* minimum balance of a pool account once its ledger box exists (PoolInitMbr)
PoolInitMbr == 1
\* 'Reward needs to be at least 1 ALGO': 1_000_000 microAlgo
OneAlgo == 1
\* getCurrentOnlineStake(), scaled down from 2_000_000_000_000_000
CurrentOnlineStake == 40
\* MAX_VALIDATOR_PCT_OF_ONLINE, tenths of a percent
MAX_VALIDATOR_PCT_OF_ONLINE == 100

(* Constants of the contract *)
ALGORAND_STAKING_BLOCK_DELAY == 320
AVG_BLOCK_TIME_SECS == 28
\* StakerPoolSet holds 4 pool keys per staker in the contract, scaled down
StakerPoolSetSize == 2

ValidatorID == 1
ZeroAddress == 0

\* bounds of ValidatorConfig
MAX_NODES == 12
MAX_POOLS_PER_NODE == 4
MIN_PAYOUT_DAYS == 1
MAX_PAYOUT_DAYS == 30
MIN_PCT_TO_VALIDATOR == 10000
MAX_PCT_TO_VALIDATOR == 100000
\* constants.algo: the protocol's least entry stake and largest pool, in model units
MIN_ALGO_STAKE_PER_POOL == 1
MAX_ALGO_PER_POOL == 20

\* the rest of validator 1's config
PayoutEveryXDays == 1
PoolsPerNode == 1
MaxNodes == 1
Accounts == 1 .. NumAccounts
PoolIDs == 1 .. MAX_POOLS

\* app id of the validator registry (CreatingValidatorContractAppID)
RegistryAppID == 100

\* app id given to the pool created as pool number p
PoolAppIDOf(p) == 100 + p

EmptyStakedInfo ==
    [Account |-> ZeroAddress, Balance |-> 0, TotalRewarded |-> 0,
     RewardTokenBalance |-> 0, EntryTime |-> 0]

EmptyPoolKey == [ID |-> 0, PoolID |-> 0, PoolAppID |-> 0]

EmptyPoolInfo == [PoolAppID |-> 0, TotalStakers |-> 0, TotalAlgoStaked |-> 0]

\* global state of an application id that was never created
NoPool ==
    [created |-> FALSE, ValidatorID |-> 0, PoolID |-> 0, NumStakers |-> 0,
     TotalAlgoStaked |-> 0, MinEntryStake |-> 0, MaxStakeAllowed |-> 0,
     LastPayout |-> 0]

RECURSIVE Product(_)
Product(s) == IF s = <<>> THEN 1 ELSE Head(s) * Product(Tail(s))

\* wideRatio(numerators, denominators): floor of the quotient of the products
wideRatio(nums, dens) == Product(nums) \div Product(dens)

\* the sum of a sequence of numbers
RECURSIVE SumOf(_)
SumOf(s) == IF s = <<>> THEN 0 ELSE Head(s) + SumOf(Tail(s))

-----------------------------------------------------------------------------
(* StakingPool *)

\* createApplication: the global state of a freshly created pool
createApplication(validatorID, poolID, minEntryStake, maxStakeAllowed) ==
    [created |-> TRUE, ValidatorID |-> validatorID, PoolID |-> poolID,
     NumStakers |-> 0, TotalAlgoStaked |-> 0,
     MinEntryStake |-> minEntryStake, MaxStakeAllowed |-> maxStakeAllowed,
     LastPayout |-> now]

\* an entry time that is the time of the call
getEntryTime_Now == now

\* StakingPool.getEntryTime: the time of the call plus the delay until the
\* network sees the stake
getEntryTime ==
    now + (ALGORAND_STAKING_BLOCK_DELAY * AVG_BLOCK_TIME_SECS) \div 10

\* the scan of addStake's loop from slot i: it stops at the staker's own slot
\* or at the first empty slot, whichever comes first
RECURSIVE addStakeScan(_, _, _)
addStakeScan(slots, staker, i) ==
    IF i > Len(slots) THEN [found |-> "none", idx |-> 0]
    ELSE IF slots[i].Account = staker THEN [found |-> "staker", idx |-> i]
    ELSE IF slots[i].Account = ZeroAddress THEN [found |-> "empty", idx |-> i]
    ELSE addStakeScan(slots, staker, i + 1)

\* StakingPool.addStake from the check of the staker on, with a verified
\* payment of `amount`
\* result: ok (error "None"), the pool's new global state and ledger, and the
\* entry time the call returns
poolAddStake(p, amount, staker) ==
    LET ps == poolState[p]
        slots == Stakers[p]
        scan == addStakeScan(slots, staker, 1)
        entryTime == getEntryTime
        fail(e) == [ok |-> FALSE, error |-> e, pool |-> ps, slots |-> slots,
                    entryTime |-> 0]
    IN  IF ~ps.created \/ slots = <<>> THEN fail("NoLedger")
        ELSE IF staker = ZeroAddress THEN fail("ZeroStaker")
        ELSE IF amount + ps.TotalAlgoStaked > ps.MaxStakeAllowed
        THEN fail("MaxExceeded")
        ELSE IF scan.found = "staker" THEN
            [ok |-> TRUE, error |-> "None", entryTime |-> entryTime,
             pool |-> [ps EXCEPT !.TotalAlgoStaked = @ + amount],
             slots |-> [slots EXCEPT ![scan.idx].Balance = @ + amount,
                                     ![scan.idx].EntryTime = entryTime]]
        ELSE IF scan.found = "none" THEN fail("PoolFull")
        ELSE IF amount < ps.MinEntryStake THEN fail("BelowMinimum")
        ELSE
            [ok |-> TRUE, error |-> "None", entryTime |-> entryTime,
             pool |-> [ps EXCEPT !.NumStakers = @ + 1,
                                 !.TotalAlgoStaked = @ + amount],
             slots |-> [slots EXCEPT ![scan.idx] =
                          [Account |-> staker, Balance |-> amount,
                           TotalRewarded |-> 0, RewardTokenBalance |-> 0,
                           EntryTime |-> entryTime]]]

\* the checks of addStake's caller and payment with any sender let through
addStakeCallAccepted_AnySender(p, sender, payment) ==
    /\ Stakers[p] # <<>>
    /\ payment.sender = RegistryAppID
    /\ payment.receiver = PoolAppIDOf(p)

\* StakingPool.addStake, the checks of the caller and of the payment: the
\* ledger exists, the registry's account sends the call, and the payment is
\* one from the registry's account to this pool's
addStakeCallAccepted(p, sender, payment) ==
    /\ Stakers[p] # <<>>
    /\ sender = RegistryAppID
    /\ payment.sender = RegistryAppID
    /\ payment.receiver = PoolAppIDOf(p)

\* StakingPool.addStake on pool p, called by the account of app `sender` with
\* the payment `payment` on behalf of staker
addStake(p, sender, payment, staker) ==
    IF addStakeCallAccepted(p, sender, payment)
    THEN poolAddStake(p, payment.amount, staker)
    ELSE [ok |-> FALSE, error |-> "NotAccepted", pool |-> poolState[p],
          slots |-> Stakers[p], entryTime |-> 0]

\* index of the first slot of the ledger held by staker, 0 when there is none
RECURSIVE findStaker(_, _, _)
findStaker(slots, staker, i) ==
    IF i > Len(slots) THEN 0
    ELSE IF slots[i].Account = staker THEN i
    ELSE findStaker(slots, staker, i + 1)

-----------------------------------------------------------------------------
(* ValidatorRegistry *)

\* findPoolForStaker without the walk of the staker's existing pools
findInPoolSet_Skipped(poolSet, amountToStake, i) == EmptyPoolKey

\* walk of the staker's pool set in findPoolForStaker: the first key of this
\* validator whose pool has room, or EmptyPoolKey
RECURSIVE findInPoolSet(_, _, _)
findInPoolSet(poolSet, amountToStake, i) ==
    IF i > Len(poolSet) THEN EmptyPoolKey
    ELSE IF /\ poolSet[i].ID = ValidatorID
            /\ validatorPools[poolSet[i].PoolID].TotalAlgoStaked + amountToStake
                 < MaxAlgoPerPool
         THEN poolSet[i]
         ELSE findInPoolSet(poolSet, amountToStake, i + 1)

\* walk of the validator's Pools array (all of it) in findPoolForStaker
RECURSIVE findInPools(_, _)
findInPools(amountToStake, i) ==
    IF i > MAX_POOLS THEN [ID |-> ValidatorID, PoolID |-> 0, PoolAppID |-> 0]
    ELSE IF validatorPools[i].TotalAlgoStaked + amountToStake < MaxAlgoPerPool
         THEN [ID |-> ValidatorID, PoolID |-> i,
               PoolAppID |-> validatorPools[i].PoolAppID]
         ELSE findInPools(amountToStake, i + 1)

\* findPoolForStaker: ok is FALSE when the minimum-entry assert fails
findPoolForStaker(staker, amountToStake) ==
    LET inSet == IF StakerPoolSet[staker] = <<>> THEN EmptyPoolKey
                 ELSE findInPoolSet(StakerPoolSet[staker], amountToStake, 1)
    IN  IF inSet # EmptyPoolKey THEN [ok |-> TRUE, key |-> inSet]
        ELSE IF amountToStake < MinEntryStake THEN [ok |-> FALSE, key |-> EmptyPoolKey]
        ELSE [ok |-> TRUE, key |-> findInPools(amountToStake, 1)]

\* updateStakerPoolSet writing over the last key when no slot is free
updateStakerPoolSet_OverwritesLast(poolSet, poolKey, i) ==
    IF \E k \in i .. Len(poolSet) : poolSet[k] = poolKey \/ poolSet[k].ID = 0
    THEN LET k == CHOOSE k \in i .. Len(poolSet) :
                    /\ poolSet[k] = poolKey \/ poolSet[k].ID = 0
                    /\ \A j \in i .. k - 1 : poolSet[j] # poolKey /\ poolSet[j].ID # 0
         IN  [ok |-> TRUE, set |-> [poolSet EXCEPT ![k] = poolKey]]
    ELSE [ok |-> TRUE, set |-> [poolSet EXCEPT ![Len(poolSet)] = poolKey]]

\* updateStakerPoolSet's loop from slot i: ok is FALSE when no slot is free
RECURSIVE updateStakerPoolSet(_, _, _)
updateStakerPoolSet(poolSet, poolKey, i) ==
    IF i > Len(poolSet) THEN [ok |-> FALSE, set |-> poolSet]
    ELSE IF poolSet[i] = poolKey THEN [ok |-> TRUE, set |-> poolSet]
    ELSE IF poolSet[i].ID = 0
         THEN [ok |-> TRUE, set |-> [poolSet EXCEPT ![i] = poolKey]]
         ELSE updateStakerPoolSet(poolSet, poolKey, i + 1)

\* removeFromStakerPoolSet leaving the key in place
removeFromStakerPoolSet_Kept(poolSet, poolKey, i) == poolSet

\* removeFromStakerPoolSet's loop from slot i
RECURSIVE removeFromStakerPoolSet(_, _, _)
removeFromStakerPoolSet(poolSet, poolKey, i) ==
    IF i > Len(poolSet) THEN poolSet
    ELSE IF poolSet[i] = poolKey THEN [poolSet EXCEPT ![i] = EmptyPoolKey]
    ELSE removeFromStakerPoolSet(poolSet, poolKey, i + 1)


\* app id of an application deployed outside the registry whose globals
\* copy those of pool number p
RogueAppIDOf(p) == 200 + p

\* globals 'validatorID' and 'poolID' of application appId as the registry
\* reads them; an application that does not exist cannot be read
appGlobals(appId) ==
    IF \E p \in PoolIDs : poolState[p].created /\ PoolAppIDOf(p) = appId
    THEN LET p == CHOOSE q \in PoolIDs : PoolAppIDOf(q) = appId
         IN  [exists |-> TRUE, validatorID |-> poolState[p].ValidatorID,
              poolID |-> poolState[p].PoolID]
    ELSE IF \E p \in PoolIDs : RogueAppIDOf(p) = appId
    THEN [exists |-> TRUE, validatorID |-> ValidatorID,
          poolID |-> CHOOSE q \in PoolIDs : RogueAppIDOf(q) = appId]
    ELSE [exists |-> FALSE, validatorID |-> 0, poolID |-> 0]

\* the checks without the comparison of the app id with the registry's record
isValidPoolCaller_AppIdNotCompared(poolKey, sender) ==
    /\ poolKey.ID = ValidatorID
    /\ poolKey.PoolID > 0 /\ poolKey.PoolID <= validatorState.NumPools
    /\ sender = poolKey.PoolAppID
    /\ appGlobals(poolKey.PoolAppID).exists
    /\ poolKey.ID = appGlobals(poolKey.PoolAppID).validatorID
    /\ poolKey.PoolID = appGlobals(poolKey.PoolAppID).poolID

\* the checks a pool's callback must pass (stakeRemoved and
\* stakeUpdatedViaRewards); sender is the app id whose account sends the call
isValidPoolCaller(poolKey, sender) ==
    /\ poolKey.ID = ValidatorID
    /\ poolKey.PoolID > 0 /\ poolKey.PoolID <= validatorState.NumPools
    /\ poolKey.PoolAppID = validatorPools[poolKey.PoolID].PoolAppID
    /\ sender = poolKey.PoolAppID
    /\ appGlobals(poolKey.PoolAppID).exists
    /\ poolKey.ID = appGlobals(poolKey.PoolAppID).validatorID
    /\ poolKey.PoolID = appGlobals(poolKey.PoolAppID).poolID

\* callPoolAddStake: forward the payment less the MBR left behind, call the
\* pool's addStake and copy the pool's counters into the registry
callPoolAddStake(amount, poolKey, mbrAmtPaid, staker) ==
    LET p == poolKey.PoolID
        fail == [ok |-> FALSE, pool |-> NoPool, slots |-> <<>>, sent |-> 0,
                 vpools |-> validatorPools, vstate |-> validatorState]
    IN  IF validatorPools[p].PoolAppID = 0 \/ amount < mbrAmtPaid THEN fail
        ELSE
          LET priorStakers == poolState[p].NumStakers
              r == addStake(p, RegistryAppID,
                            [sender |-> RegistryAppID,
                             receiver |-> validatorPools[p].PoolAppID,
                             amount |-> amount - mbrAmtPaid], staker)
          IN  IF ~r.ok THEN fail
              ELSE
                [ok |-> TRUE, pool |-> r.pool, slots |-> r.slots,
                 sent |-> amount - mbrAmtPaid,
                 vpools |-> [validatorPools EXCEPT
                               ![p].TotalStakers = r.pool.NumStakers,
                               ![p].TotalAlgoStaked = r.pool.TotalAlgoStaked],
                 vstate |-> [validatorState EXCEPT
                               !.TotalStakers = @ + (r.pool.NumStakers - priorStakers),
                               !.TotalAlgoStaked = @ + (amount - mbrAmtPaid)]]

\* stakeUpdatedViaRewards without the update of State.TotalAlgoStaked
stakeUpdatedViaRewards_PoolOnly(poolKey, amountToAdd, vpools, vstate) ==
    [vpools |-> [vpools EXCEPT ![poolKey.PoolID].TotalAlgoStaked = @ + amountToAdd],
     vstate |-> vstate]

\* ValidatorRegistry.stakeUpdatedViaRewards (algo part)
stakeUpdatedViaRewards(poolKey, amountToAdd, vpools, vstate) ==
    [vpools |-> [vpools EXCEPT ![poolKey.PoolID].TotalAlgoStaked = @ + amountToAdd],
     vstate |-> [vstate EXCEPT !.TotalAlgoStaked = @ + amountToAdd]]

\* stakeUpdatedViaRewards, token part: the tokens credited are held back
rewardTokenCredited(vstate, tokenPaidOut) ==
    [vstate EXCEPT !.RewardTokenHeldBack = @ + tokenPaidOut]

\* stakeRemoved without the decrement of the pool's TotalStakers
stakeRemoved_PoolCountKept(poolKey, staker, amountRemoved, stakerRemoved) ==
    LET p == poolKey.PoolID
        vp == validatorPools[p]
        underflow ==
            \/ vp.TotalAlgoStaked < amountRemoved
            \/ validatorState.TotalAlgoStaked < amountRemoved
            \/ stakerRemoved /\ (vp.TotalStakers < 1 \/ validatorState.TotalStakers < 1)
            \/ stakerRemoved /\ StakerPoolSet[staker] = <<>>
        less == IF stakerRemoved THEN 1 ELSE 0
    IN  IF underflow
        THEN [ok |-> FALSE, vpools |-> validatorPools, vstate |-> validatorState,
              set |-> StakerPoolSet[staker]]
        ELSE [ok |-> TRUE,
              vpools |-> [validatorPools EXCEPT
                            ![p].TotalAlgoStaked = @ - amountRemoved],
              vstate |-> [validatorState EXCEPT
                            !.TotalAlgoStaked = @ - amountRemoved,
                            !.TotalStakers = @ - less],
              set |-> IF stakerRemoved
                      THEN removeFromStakerPoolSet(StakerPoolSet[staker], poolKey, 1)
                      ELSE StakerPoolSet[staker]]

\* ValidatorRegistry.stakeRemoved (algo part): ok is FALSE on underflow
stakeRemoved(poolKey, staker, amountRemoved, stakerRemoved) ==
    LET p == poolKey.PoolID
        vp == validatorPools[p]
        underflow ==
            \/ vp.TotalAlgoStaked < amountRemoved
            \/ validatorState.TotalAlgoStaked < amountRemoved
            \/ stakerRemoved /\ (vp.TotalStakers < 1 \/ validatorState.TotalStakers < 1)
            \/ stakerRemoved /\ StakerPoolSet[staker] = <<>>
        less == IF stakerRemoved THEN 1 ELSE 0
    IN  IF underflow
        THEN [ok |-> FALSE, vpools |-> validatorPools, vstate |-> validatorState,
              set |-> StakerPoolSet[staker]]
        ELSE [ok |-> TRUE,
              vpools |-> [validatorPools EXCEPT
                            ![p].TotalAlgoStaked = @ - amountRemoved,
                            ![p].TotalStakers = @ - less],
              vstate |-> [validatorState EXCEPT
                            !.TotalAlgoStaked = @ - amountRemoved,
                            !.TotalStakers = @ - less],
              set |-> IF stakerRemoved
                      THEN removeFromStakerPoolSet(StakerPoolSet[staker], poolKey, 1)
                      ELSE StakerPoolSet[staker]]

\* stakeRemoved, token part: tokens leaving a ledger are no longer held back
rewardTokenRemoved(vstate, tokenRemoved) ==
    [vstate EXCEPT !.RewardTokenHeldBack = @ - tokenRemoved]

\* setTokenPayoutRatio: each pool's share of the validator's stake in
\* millionths, cached until pool #1 has begun a new epoch
setTokenPayoutRatio(poolOneLastPayout) ==
    IF tokenPayoutRatio.UpdatedForPayout = poolOneLastPayout
    THEN [ok |-> TRUE, ratio |-> tokenPayoutRatio]
    ELSE IF validatorState.TotalAlgoStaked = 0
    THEN [ok |-> FALSE, ratio |-> tokenPayoutRatio]
    ELSE [ok |-> TRUE,
          ratio |-> [PoolPctOfWhole |->
                        [i \in PoolIDs |->
                           (validatorPools[i].TotalAlgoStaked * 1000000)
                              \div validatorState.TotalAlgoStaked],
                     UpdatedForPayout |-> poolOneLastPayout]]

\* the checks of proxiedSetTokenPayoutRatio without the one on the sender
isSiblingPoolCaller_SenderNotChecked(callee, poolKey, sender) ==
    /\ poolState[callee].created
    /\ poolState[callee].ValidatorID = poolKey.ID
    /\ poolState[callee].PoolID = 1
    /\ poolKey.PoolID # 1
    /\ poolKey.PoolID \in PoolIDs
    /\ validatorPools[poolKey.PoolID].PoolAppID = poolKey.PoolAppID
    /\ appGlobals(poolKey.PoolAppID).exists

\* the checks of proxiedSetTokenPayoutRatio, called on pool `callee` by the
\* account of app `sender`: the pool key must be that of another pool of the
\* callee's validator as the registry records it (getPoolAppID), sent by
\* that pool
isSiblingPoolCaller(callee, poolKey, sender) ==
    /\ poolState[callee].created
    /\ poolState[callee].ValidatorID = poolKey.ID
    /\ poolState[callee].PoolID = 1
    /\ poolKey.PoolID # 1
    /\ poolKey.PoolID \in PoolIDs
    /\ validatorPools[poolKey.PoolID].PoolAppID = poolKey.PoolAppID
    /\ appGlobals(poolKey.PoolAppID).exists
    /\ sender = poolKey.PoolAppID

\* StakingPool.proxiedSetTokenPayoutRatio: forwards to the registry's
\* setTokenPayoutRatio when the checks pass
proxiedSetTokenPayoutRatio(callee, poolKey, sender) ==
    IF isSiblingPoolCaller(callee, poolKey, sender)
    THEN setTokenPayoutRatio(poolState[callee].LastPayout)
    ELSE [ok |-> FALSE, ratio |-> tokenPayoutRatio]

-----------------------------------------------------------------------------
(* StakingPool: removeStake, claimTokens *)

\* minimum balance of a pool's account
minBalance(p) == IF Stakers[p] = <<>> THEN 0 ELSE PoolInitMbr

\* removeStake with the check of the balance left behind dropped
residualAllowed_Any(left, minEntryStake) == TRUE

\* removeStake's assert on the balance left behind: all of it is removed, or
\* at least the minimum entry stake stays
residualAllowed(left, minEntryStake) == left = 0 \/ left >= minEntryStake

\* payTokenReward paying whoever calls it
payTokenReward_AnySender(p, sender, rewardToken, amountToSend) ==
    [ok |-> /\ poolState[p].created
            /\ poolState[p].PoolID = 1
            /\ rewardToken # 0
            /\ tokenBalance >= amountToSend,
     sent |-> amountToSend]

\* StakingPool.payTokenReward called on pool p by the account of app `sender`:
\* the asserts, and the transfer out of the pool's holding of the token
payTokenReward(p, sender, rewardToken, amountToSend) ==
    [ok |-> /\ poolState[p].created
            /\ sender = RegistryAppID
            /\ poolState[p].PoolID = 1
            /\ rewardToken # 0
            /\ tokenBalance >= amountToSend,
     sent |-> amountToSend]

\* a pool that zeroes a RewardTokenBalance and sends nothing itself
sentByPool_Nothing(p, tokenRemoved) == 0

\* the reward tokens pool p itself sends the staker when it zeroes a
\* RewardTokenBalance: all of them on pool #1, none elsewhere
sentByPool(p, tokenRemoved) ==
    IF poolState[p].PoolID = 1 THEN tokenRemoved ELSE 0

\* stakeRemoved, token part: tokens removed on a pool other than #1 are paid
\* by pool #1, which the registry calls
stakeRemovedTokenRoute(poolKey, tokenRemoved) ==
    IF poolKey.PoolID # 1 /\ tokenRemoved > 0
    THEN payTokenReward(1, RegistryAppID, RewardTokenID, tokenRemoved)
    ELSE [ok |-> TRUE, sent |-> 0]

\* removeStake reporting no reward tokens removed
tokenRemovedFrom_None(slot) == 0

\* what a removeStake or claimTokens reports as amountRewardTokenRemoved
tokenRemovedFrom(slot) ==
    IF slot.RewardTokenBalance > 0 THEN slot.RewardTokenBalance ELSE 0

\* removeStake taking any amount for covered
insufficientBalance_Never(stakerBalance, amountToUnstake) == FALSE

\* the staker asks for more than the slot holds
insufficientBalance(stakerBalance, amountToUnstake) ==
    stakerBalance < amountToUnstake

\* removeStake taking an amount of 0 for a removal of nothing
unstakeAmount_ZeroIsNothing(amountToUnstake, stakerBalance) == amountToUnstake

\* removeStake: 'specifying 0 for unstake amount is requesting to UNSTAKE ALL'
unstakeAmount(amountToUnstake, stakerBalance) ==
    IF amountToUnstake = 0 THEN stakerBalance ELSE amountToUnstake

\* StakingPool.removeStake by `staker` up to (not including) the callback.
\* A freed slot keeps its EntryTime: only the other fields are zeroed.
removeStake(p, staker, amountToUnstake) ==
    LET ps == poolState[p]
        slots == Stakers[p]
        i == findStaker(slots, staker, 1)
        fail(e) == [ok |-> FALSE, error |-> e, pool |-> ps, slots |-> slots,
                    amount |-> 0, tokenRemoved |-> 0, stakerRemoved |-> FALSE]
    IN  IF i = 0 THEN fail("AccountNotFound")
        ELSE
          LET cmpStaker == slots[i]
              amount == unstakeAmount(amountToUnstake, cmpStaker.Balance)
              left == cmpStaker.Balance - amount
              tokenRemoved == tokenRemovedFrom(cmpStaker)
              gone == (left = 0)
          IN  IF insufficientBalance(cmpStaker.Balance, amount)
              THEN fail("InsufficientBalance")
              ELSE IF ps.TotalAlgoStaked < amount THEN fail("Underflow")
              ELSE IF ~residualAllowed(left, ps.MinEntryStake)
              THEN fail("BelowMinimum")
              ELSE IF balance[p] - amount < minBalance(p) THEN fail("Overspend")
              ELSE
                [ok |-> TRUE, error |-> "None",
                 pool |-> [ps EXCEPT !.TotalAlgoStaked = @ - amount,
                                     !.NumStakers = IF gone THEN @ - 1 ELSE @],
                 slots |-> [slots EXCEPT ![i] =
                              IF gone
                              THEN [EmptyStakedInfo EXCEPT
                                      !.EntryTime = cmpStaker.EntryTime]
                              ELSE [cmpStaker EXCEPT !.Balance = left,
                                                     !.RewardTokenBalance = 0]],
                 amount |-> amount,
                 tokenRemoved |-> tokenRemoved,
                 stakerRemoved |-> gone]

\* claimTokens clearing TotalRewarded as a full removal does
claimTokens_TotalRewardedCleared(p, staker) ==
    LET slots == Stakers[p]
        i == findStaker(slots, staker, 1)
    IN  IF i = 0
        THEN [ok |-> FALSE, slots |-> slots, tokenRemoved |-> 0, reported |-> FALSE]
        ELSE IF slots[i].RewardTokenBalance = 0
        THEN [ok |-> TRUE, slots |-> slots, tokenRemoved |-> 0, reported |-> FALSE]
        ELSE [ok |-> TRUE,
              slots |-> [slots EXCEPT ![i].RewardTokenBalance = 0,
                                       ![i].TotalRewarded = 0],
              tokenRemoved |-> slots[i].RewardTokenBalance,
              reported |-> TRUE]

\* StakingPool.claimTokens by `staker` up to (not including) the callback;
\* nothing is reported when there is nothing to claim
claimTokens(p, staker) ==
    LET slots == Stakers[p]
        i == findStaker(slots, staker, 1)
    IN  IF i = 0
        THEN [ok |-> FALSE, slots |-> slots, tokenRemoved |-> 0, reported |-> FALSE]
        ELSE IF slots[i].RewardTokenBalance = 0
        THEN [ok |-> TRUE, slots |-> slots, tokenRemoved |-> 0, reported |-> FALSE]
        ELSE [ok |-> TRUE,
              slots |-> [slots EXCEPT ![i].RewardTokenBalance = 0],
              tokenRemoved |-> slots[i].RewardTokenBalance,
              reported |-> TRUE]


-----------------------------------------------------------------------------
(* StakingPool: epochBalanceUpdate *)

getCurrentOnlineStake == CurrentOnlineStake

maxAllowedStake ==
    wideRatio(<<getCurrentOnlineStake, MAX_VALIDATOR_PCT_OF_ONLINE>>, <<1000>>)

epochInSecs == PayoutEveryXMins * 60

\* epochBalanceUpdate without the assert on the time since the last payout
epochHasPassed_Always(curTime, lastPayout) == TRUE

\* epochBalanceUpdate comparing the two times without the epoch's length
epochHasPassed_AnyLater(curTime, lastPayout) == curTime > lastPayout

\* the epoch gate: a full epoch has passed since the last payout
epochHasPassed(curTime, lastPayout) == curTime - lastPayout >= epochInSecs

\* epochBalanceUpdate crediting tokens whatever pool #1 holds unassigned
tokenPayoutFunded_Always(tokenRewardBal) == TRUE

\* enough unassigned tokens are in pool #1 for a payout
tokenPayoutFunded(tokenRewardBal) == tokenRewardBal >= RewardPerPayout

\* the validator's cut with the percentage read with three decimals
validatorCut_ThreeDecimals(algoRewardAvail) ==
    wideRatio(<<algoRewardAvail, PercentToValidator>>, <<100000>>)

\* the validator's cut of the available reward
validatorCut(algoRewardAvail) ==
    wideRatio(<<algoRewardAvail, PercentToValidator>>, <<1000000>>)

\* a share of time in the pool that is never below the whole epoch
timePercentage_AtLeastWhole(timeInPool) ==
    1000 + (timeInPool * 1000) \div epochInSecs

\* the share of the epoch a partial-epoch staker was in the pool, in tenths
\* of a percent
timePercentage(timeInPool) == (timeInPool * 1000) \div epochInSecs

\* a first loop that takes no entry time for later than the payout
forwardDated_Never(entryTime, curTime) == FALSE

\* the staker's entry time, dated forward by addStake, is still ahead of the
\* payout: 'in this case it definitely means they get 0%'
forwardDated(entryTime, curTime) == entryTime > curTime

\* first loop of epochBalanceUpdate, slots i.. : the stakers that were not in
\* for the whole epoch.  acc carries the ledger and the running amounts.
RECURSIVE payPartialStakers(_, _, _, _)
payPartialStakers(acc, i, curTime, totalStaked) ==
    IF i > Len(acc.slots) THEN acc
    ELSE
      LET cmpStaker == acc.slots[i]
          next ==
            IF cmpStaker.Account = ZeroAddress THEN acc
            ELSE IF forwardDated(cmpStaker.EntryTime, curTime)
            THEN [acc EXCEPT !.partialStakersTotalStake = @ + cmpStaker.Balance]
            ELSE
              LET timeInPool == curTime - cmpStaker.EntryTime
                  pct == timePercentage(timeInPool)
                  stakerTokenReward ==
                    IF acc.tokenRewardAvail > 0
                    THEN wideRatio(<<cmpStaker.Balance, acc.tokenRewardAvail, pct>>,
                                   <<totalStaked, 1000>>)
                    ELSE 0
                  stakerReward ==
                    IF acc.algoRewardAvail > 0
                    THEN wideRatio(<<cmpStaker.Balance, acc.algoRewardAvail, pct>>,
                                   <<totalStaked, 1000>>)
                    ELSE 0
              IN  IF timeInPool < epochInSecs
                  THEN [slots |-> [acc.slots EXCEPT
                                     ![i].RewardTokenBalance = @ + stakerTokenReward,
                                     ![i].Balance = @ + stakerReward,
                                     ![i].TotalRewarded = @ + stakerReward],
                        partialStakersTotalStake |->
                            acc.partialStakersTotalStake + cmpStaker.Balance,
                        tokenRewardAvail |-> acc.tokenRewardAvail - stakerTokenReward,
                        algoRewardAvail |-> acc.algoRewardAvail - stakerReward,
                        tokenRewardPaidOut |-> acc.tokenRewardPaidOut + stakerTokenReward,
                        increasedStake |-> acc.increasedStake + stakerReward]
                  ELSE acc
      IN  payPartialStakers(next, i + 1, curTime, totalStaked)

\* second loop of epochBalanceUpdate, slots i.. : the stakers in for the whole
\* epoch share what is left in proportion to newPoolTotalStake
RECURSIVE payFullStakers(_, _, _, _)
payFullStakers(acc, i, curTime, newPoolTotalStake) ==
    IF i > Len(acc.slots) THEN acc
    ELSE
      LET cmpStaker == acc.slots[i]
          full == /\ cmpStaker.Account # ZeroAddress
                  /\ cmpStaker.EntryTime < curTime
                  /\ curTime - cmpStaker.EntryTime >= epochInSecs
          stakerTokenReward ==
            IF acc.tokenRewardAvail > 0
            THEN wideRatio(<<cmpStaker.Balance, acc.tokenRewardAvail>>,
                           <<newPoolTotalStake>>)
            ELSE 0
          stakerReward ==
            IF acc.algoRewardAvail > 0
            THEN wideRatio(<<cmpStaker.Balance, acc.algoRewardAvail>>,
                           <<newPoolTotalStake>>)
            ELSE 0
          next ==
            IF full
            THEN [acc EXCEPT
                    !.slots = [acc.slots EXCEPT
                                 ![i].RewardTokenBalance = @ + stakerTokenReward,
                                 ![i].Balance = @ + stakerReward,
                                 ![i].TotalRewarded = @ + stakerReward],
                    !.tokenRewardPaidOut = @ + stakerTokenReward,
                    !.increasedStake = @ + stakerReward]
            ELSE acc
      IN  payFullStakers(next, i + 1, curTime, newPoolTotalStake)

\* the reward still counted as available after it went to the fee sink
algoLeftAfterFeeSink_Kept(algoRewardAvail) == algoRewardAvail

\* what is left for the stakers once the whole reward went to the fee sink
algoLeftAfterFeeSink(algoRewardAvail) == 0

\* the second pass sharing over the pool's whole stake
effectiveStake_Whole(totalStaked, partialStakersTotalStake) == totalStaked

\* the stake the second pass shares the rest of the reward over: the pool's
\* stake less that of the stakers handled in the first pass
effectiveStake(totalStaked, partialStakersTotalStake) ==
    totalStaked - partialStakersTotalStake

\* the check of the least reward, with 'at least 1 ALGO' taken literally
rewardTooSmall_BelowOneAlgo(tokenRewardAvail, algoRewardAvail) ==
    tokenRewardAvail = 0 /\ ~(algoRewardAvail >= OneAlgo)

\* StakingPool.epochBalanceUpdate: 'Reward needs to be at least 1 ALGO' fails
rewardTooSmall(tokenRewardAvail, algoRewardAvail) ==
    tokenRewardAvail = 0 /\ ~(algoRewardAvail > OneAlgo)

\* a reward that counts the account's minimum balance in
rewardAvailable_MbrCounted(accountBalance, totalStaked, accountMinBalance) ==
    accountBalance - totalStaked

\* 'total reward available is current balance - amount staked', 'not
\* counting MBR which should never be counted - it's not payable'
rewardAvailable(accountBalance, totalStaked, accountMinBalance) ==
    accountBalance - totalStaked - accountMinBalance

\* a payout that goes through both loops whatever is left
nothingToDistribute_Never(algoRewardAvail, tokenRewardAvail) == FALSE

\* 'Since we also have no token reward to assign - we're done'
nothingToDistribute(algoRewardAvail, tokenRewardAvail) ==
    algoRewardAvail = 0 /\ tokenRewardAvail = 0

\* StakingPool.epochBalanceUpdate on pool p, up to (not including) the
\* stakeUpdatedViaRewards callback
epochBalanceUpdate(p) ==
    LET ps == poolState[p]
        curTime == now
        isTokenEligible == RewardTokenID # 0
        snap == IF isTokenEligible
                THEN IF ps.PoolID = 1
                     THEN setTokenPayoutRatio(curTime)
                     ELSE proxiedSetTokenPayoutRatio(
                              1, [ID |-> ps.ValidatorID, PoolID |-> ps.PoolID,
                                  PoolAppID |-> PoolAppIDOf(p)],
                              PoolAppIDOf(p))
                ELSE [ok |-> TRUE, ratio |-> tokenPayoutRatio]
        totalStaked == ps.TotalAlgoStaked
        algoRewardAvail == rewardAvailable(balance[p], totalStaked, minBalance(p))
        sendRewardToFeeSink == validatorState.TotalAlgoStaked > maxAllowedStake
        tokenRewardBal == tokenBalance - validatorState.RewardTokenHeldBack
        tokenRewardAvail ==
            IF isTokenEligible /\ tokenPayoutFunded(tokenRewardBal)
            THEN wideRatio(<<RewardPerPayout, snap.ratio.PoolPctOfWhole[p]>>,
                           <<1000000>>)
            ELSE 0
        validatorPay ==
            IF ~sendRewardToFeeSink /\ PercentToValidator # 0
            THEN validatorCut(algoRewardAvail) ELSE 0
        feeSinkPay == IF sendRewardToFeeSink THEN algoRewardAvail ELSE 0
        algoLeft == IF sendRewardToFeeSink THEN algoLeftAfterFeeSink(algoRewardAvail)
                    ELSE algoRewardAvail - validatorPay
        start == [slots |-> Stakers[p], partialStakersTotalStake |-> 0,
                  tokenRewardAvail |-> tokenRewardAvail,
                  algoRewardAvail |-> algoLeft,
                  tokenRewardPaidOut |-> 0, increasedStake |-> 0]
        pass1 == payPartialStakers(start, 1, curTime, totalStaked)
        newPoolTotalStake ==
            effectiveStake(totalStaked, pass1.partialStakersTotalStake)
        pass2 == IF newPoolTotalStake > 0
                 THEN payFullStakers(pass1, 1, curTime, newPoolTotalStake)
                 ELSE pass1
        paid == [pool |-> [ps EXCEPT !.LastPayout = curTime],
                 ratio |-> snap.ratio,
                 validatorPay |-> validatorPay, feeSinkPay |-> feeSinkPay,
                 algoRewardAvail |-> algoRewardAvail,
                 tokenRewardAvail |-> tokenRewardAvail,
                 algoLeft |-> algoLeft]
        fail == [ok |-> FALSE, reported |-> FALSE, slots |-> Stakers[p],
                 increasedStake |-> 0, tokenRewardPaidOut |-> 0] @@ paid
    IN  IF ~ps.created \/ ~epochHasPassed(curTime, ps.LastPayout) THEN fail
        ELSE IF ~snap.ok THEN fail
        ELSE IF algoRewardAvail < 0 THEN fail
        ELSE IF isTokenEligible /\ tokenRewardBal < 0 THEN fail
        ELSE IF rewardTooSmall(tokenRewardAvail, algoRewardAvail) THEN fail
        ELSE IF nothingToDistribute(algoLeft, tokenRewardAvail)
        THEN [ok |-> TRUE, reported |-> FALSE, slots |-> Stakers[p],
              increasedStake |-> 0, tokenRewardPaidOut |-> 0] @@ paid
        ELSE IF Stakers[p] = <<>> THEN fail
        ELSE [ok |-> TRUE, reported |-> TRUE, slots |-> pass2.slots,
              increasedStake |-> pass2.increasedStake,
              tokenRewardPaidOut |-> pass2.tokenRewardPaidOut]
             @@ [paid EXCEPT !.pool.TotalAlgoStaked = @ + pass2.increasedStake]


-----------------------------------------------------------------------------
(* The state machine *)

\* pool #1 was created at PoolOneCreated, one epoch before the run starts
PoolOneCreated == TickSecs
StartTime == 3 * TickSecs

EmptyLedger == [i \in 1 .. MAX_STAKERS_PER_POOL |-> EmptyStakedInfo]

EmptyPoolSet == [i \in 1 .. StakerPoolSetSize |-> EmptyPoolKey]

\* ValidatorRegistry.validateConfig with a 10x larger MAX_PCT_TO_VALIDATOR
validateConfig_PctToMillion(config) ==
    /\ config.PayoutEveryXDays >= MIN_PAYOUT_DAYS /\ config.PayoutEveryXDays <= MAX_PAYOUT_DAYS
    /\ config.PercentToValidator >= MIN_PCT_TO_VALIDATOR
    /\ config.PercentToValidator <= 10 * MAX_PCT_TO_VALIDATOR
    /\ config.ValidatorCommissionAddress # ZeroAddress
    /\ config.MinAllowedStake >= MIN_ALGO_STAKE_PER_POOL
    /\ config.MaxAlgoPerPool <= MAX_ALGO_PER_POOL
    /\ config.PoolsPerNode > 0 /\ config.PoolsPerNode <= MAX_POOLS_PER_NODE
    /\ config.MaxNodes > 0 /\ config.MaxNodes <= MAX_NODES

\* ValidatorRegistry.validateConfig: TRUE when no assert fails
validateConfig(config) ==
    /\ config.PayoutEveryXDays >= MIN_PAYOUT_DAYS /\ config.PayoutEveryXDays <= MAX_PAYOUT_DAYS
    /\ config.PercentToValidator >= MIN_PCT_TO_VALIDATOR
    /\ config.PercentToValidator <= MAX_PCT_TO_VALIDATOR
    /\ config.ValidatorCommissionAddress # ZeroAddress
    /\ config.MinAllowedStake >= MIN_ALGO_STAKE_PER_POOL
    /\ config.MaxAlgoPerPool <= MAX_ALGO_PER_POOL
    /\ config.PoolsPerNode > 0 /\ config.PoolsPerNode <= MAX_POOLS_PER_NODE
    /\ config.MaxNodes > 0 /\ config.MaxNodes <= MAX_NODES

\* the config validator 1 was added with
ValidatorOneConfig ==
    [PayoutEveryXDays |-> PayoutEveryXDays, PercentToValidator |-> PercentToValidator,
     ValidatorCommissionAddress |-> 1, MinAllowedStake |-> MinEntryStake,
     MaxAlgoPerPool |-> MaxAlgoPerPool, PoolsPerNode |-> PoolsPerNode,
     MaxNodes |-> MaxNodes]

\* validator 1 has been added and has created and initialised its pool #1
\* no addStake to look back at
NoAdd ==
    [staker |-> ZeroAddress, amount |-> 0, PoolID |-> 0, forwarded |-> 0,
     hadNoKey |-> FALSE, NumStakers |-> 0, TotalAlgoStaked |-> 0,
     Pools |-> <<>>, State |-> [TotalStakers |-> 0, TotalAlgoStaked |-> 0]]

Init ==
    /\ now = StartTime
    /\ numValidators = 1
    /\ ValidatorList = <<[ID |-> ValidatorID, Owner |-> 1, Manager |-> 1,
                          NFDForInfo |-> 0, Config |-> ValidatorOneConfig,
                          Nodes |-> <<"foo">>]>>
    /\ validatorState = [NumPools |-> 1, TotalStakers |-> 0,
                         TotalAlgoStaked |-> 0, RewardTokenHeldBack |-> 0]
    /\ validatorPools = [i \in PoolIDs |->
                           IF i = 1 THEN [EmptyPoolInfo EXCEPT !.PoolAppID = PoolAppIDOf(1)]
                           ELSE EmptyPoolInfo]
    /\ StakerPoolSet = [a \in Accounts |-> <<>>]
    /\ poolState = [i \in PoolIDs |->
                      IF i = 1
                      THEN [created |-> TRUE, ValidatorID |-> ValidatorID,
                            PoolID |-> 1, NumStakers |-> 0, TotalAlgoStaked |-> 0,
                            MinEntryStake |-> MinEntryStake,
                            MaxStakeAllowed |-> MaxAlgoPerPool,
                            LastPayout |-> PoolOneCreated]
                      ELSE NoPool]
    /\ Stakers = [i \in PoolIDs |-> IF i = 1 THEN EmptyLedger ELSE <<>>]
    /\ balance = [i \in PoolIDs |-> IF i = 1 THEN PoolInitMbr ELSE 0]
    /\ tokenBalance = 0
    /\ tokenPayoutRatio = [PoolPctOfWhole |-> [i \in PoolIDs |-> 0],
                           UpdatedForPayout |-> 0]
    /\ paidOut = [commission |-> 0, feeSink |-> 0]
    /\ txnCount = 0
    /\ lastAdd = NoAdd
    /\ tokensReceived = [a \in Accounts |-> 0]

\* one more transaction group is confirmed
Confirmed ==
    /\ txnCount < MaxTxns
    /\ txnCount' = txnCount + 1

\* a block with a later timestamp
Tick ==
    /\ now < StartTime + MaxTicks * TickSecs
    /\ now' = now + TickSecs
    /\ UNCHANGED <<numValidators, ValidatorList, validatorState, validatorPools, StakerPoolSet, poolState,
                   Stakers, balance, tokenBalance, tokenPayoutRatio, txnCount, paidOut,
                   lastAdd, tokensReceived>>

\* ValidatorRegistry.addPool by the validator's owner
AddPool ==
    LET numPools == validatorState.NumPools + 1 IN
    /\ Confirmed
    /\ validatorState.NumPools < MAX_POOLS
    /\ poolState' = [poolState EXCEPT ![numPools] =
                       createApplication(ValidatorID, numPools, MinEntryStake,
                                         MaxAlgoPerPool)]
    /\ validatorState' = [validatorState EXCEPT !.NumPools = numPools]
    /\ validatorPools' = [validatorPools EXCEPT
                            ![numPools].PoolAppID = PoolAppIDOf(numPools)]
    /\ lastAdd' = NoAdd
    /\ UNCHANGED <<numValidators, ValidatorList, now, tokensReceived, StakerPoolSet, Stakers, balance, tokenBalance,
                   tokenPayoutRatio, paidOut>>

\* StakingPool.initStorage with the exact MBR payment
InitStorage(p) ==
    /\ Confirmed
    /\ poolState[p].created
    /\ Stakers[p] = <<>>
    /\ Stakers' = [Stakers EXCEPT ![p] = EmptyLedger]
    /\ balance' = [balance EXCEPT ![p] = @ + PoolInitMbr]
    /\ lastAdd' = NoAdd
    /\ UNCHANGED <<numValidators, ValidatorList, now, tokensReceived, validatorState, validatorPools, StakerPoolSet,
                   poolState, tokenBalance, tokenPayoutRatio, paidOut>>

\* ValidatorRegistry.addStake by `staker` with a payment of `amount`
AddStake(staker, amount) ==
    LET found == findPoolForStaker(staker, amount)
        poolKey == found.key
        isNew == StakerPoolSet[staker] = <<>>
        mbrAmtLeftBehind == IF isNew THEN AddStakerMbr ELSE 0
        set == updateStakerPoolSet(IF isNew THEN EmptyPoolSet
                                   ELSE StakerPoolSet[staker], poolKey, 1)
        r == callPoolAddStake(amount, poolKey, mbrAmtLeftBehind, staker)
    IN  /\ Confirmed
        /\ found.ok
        /\ poolKey.PoolID # 0
        /\ set.ok
        /\ r.ok
        /\ StakerPoolSet' = [StakerPoolSet EXCEPT ![staker] = set.set]
        /\ poolState' = [poolState EXCEPT ![poolKey.PoolID] = r.pool]
        /\ Stakers' = [Stakers EXCEPT ![poolKey.PoolID] = r.slots]
        /\ balance' = [balance EXCEPT ![poolKey.PoolID] = @ + r.sent]
        /\ validatorPools' = r.vpools
        /\ validatorState' = r.vstate
        /\ lastAdd' = [staker |-> staker, amount |-> amount,
                       PoolID |-> poolKey.PoolID, forwarded |-> r.sent,
                       hadNoKey |-> \A k \in 1 .. Len(StakerPoolSet[staker]) :
                                       StakerPoolSet[staker][k] = EmptyPoolKey,
                       NumStakers |-> poolState[poolKey.PoolID].NumStakers,
                       TotalAlgoStaked |-> poolState[poolKey.PoolID].TotalAlgoStaked,
                       Pools |-> [i \in PoolIDs |->
                                    [TotalStakers |-> validatorPools[i].TotalStakers,
                                     TotalAlgoStaked |-> validatorPools[i].TotalAlgoStaked]],
                       State |-> [TotalStakers |-> validatorState.TotalStakers,
                                  TotalAlgoStaked |-> validatorState.TotalAlgoStaked]]
        /\ UNCHANGED <<numValidators, ValidatorList, now, tokensReceived, tokenBalance, tokenPayoutRatio, paidOut>>

\* the error a registry addStake(amount) by `staker` ends with, "None" when
\* it goes through
addStakeError(staker, amount) ==
    LET found == findPoolForStaker(staker, amount)
        isNew == StakerPoolSet[staker] = <<>>
        set == updateStakerPoolSet(IF isNew THEN EmptyPoolSet
                                   ELSE StakerPoolSet[staker], found.key, 1)
    IN  IF ~found.ok THEN "BelowMinimum"
        ELSE IF found.key.PoolID = 0 THEN "NoPoolAvailable"
        ELSE IF ~set.ok THEN "StakerPoolSetFull"
        ELSE IF ~callPoolAddStake(amount, found.key,
                                  IF isNew THEN AddStakerMbr ELSE 0, staker).ok
        THEN "PoolCallFailed"
        ELSE "None"

\* the pool key a pool passes to the registry
poolKeyOf(p) ==
    [ID |-> poolState[p].ValidatorID, PoolID |-> poolState[p].PoolID,
     PoolAppID |-> PoolAppIDOf(p)]

\* StakingPool.removeStake by `staker` on pool p
RemoveStake(p, staker, amountToUnstake) ==
    LET r == removeStake(p, staker, amountToUnstake)
        cb == stakeRemoved(poolKeyOf(p), staker, r.amount, r.stakerRemoved)
        direct == sentByPool(p, r.tokenRemoved)
        routed == stakeRemovedTokenRoute(poolKeyOf(p), r.tokenRemoved)
    IN  /\ Confirmed
        /\ Stakers[p] # <<>>
        /\ r.ok
        /\ isValidPoolCaller(poolKeyOf(p), PoolAppIDOf(p))
        /\ cb.ok
        /\ validatorState.RewardTokenHeldBack >= r.tokenRemoved
        /\ tokenBalance >= direct
        /\ routed.ok
        /\ poolState' = [poolState EXCEPT ![p] = r.pool]
        /\ Stakers' = [Stakers EXCEPT ![p] = r.slots]
        /\ balance' = [balance EXCEPT ![p] = @ - r.amount]
        /\ tokenBalance' = tokenBalance - direct - routed.sent
        /\ tokensReceived' = [tokensReceived EXCEPT
                                ![staker] = @ + direct + routed.sent]
        /\ validatorPools' = cb.vpools
        /\ validatorState' = rewardTokenRemoved(cb.vstate, r.tokenRemoved)
        /\ StakerPoolSet' = [StakerPoolSet EXCEPT ![staker] = cb.set]
        /\ lastAdd' = NoAdd
        /\ UNCHANGED <<numValidators, ValidatorList, now, tokenPayoutRatio, paidOut>>

\* StakingPool.claimTokens by `staker` on pool p
ClaimTokens(p, staker) ==
    LET r == claimTokens(p, staker)
        cb == stakeRemoved(poolKeyOf(p), staker, 0, FALSE)
        direct == sentByPool(p, r.tokenRemoved)
        routed == stakeRemovedTokenRoute(poolKeyOf(p), r.tokenRemoved)
    IN  /\ Confirmed
        /\ Stakers[p] # <<>>
        /\ r.ok
        /\ r.reported => /\ isValidPoolCaller(poolKeyOf(p), PoolAppIDOf(p))
                         /\ cb.ok
                         /\ validatorState.RewardTokenHeldBack >= r.tokenRemoved
                         /\ tokenBalance >= direct
                         /\ routed.ok
        /\ Stakers' = [Stakers EXCEPT ![p] = r.slots]
        /\ tokenBalance' = tokenBalance - direct - routed.sent
        /\ tokensReceived' = [tokensReceived EXCEPT
                                ![staker] = @ + direct + routed.sent]
        /\ validatorPools' = IF r.reported THEN cb.vpools ELSE validatorPools
        /\ validatorState' = IF r.reported
                             THEN rewardTokenRemoved(cb.vstate, r.tokenRemoved)
                             ELSE validatorState
        /\ StakerPoolSet' = IF r.reported
                            THEN [StakerPoolSet EXCEPT ![staker] = cb.set]
                            ELSE StakerPoolSet
        /\ lastAdd' = NoAdd
        /\ UNCHANGED <<numValidators, ValidatorList, now, poolState, balance, tokenPayoutRatio, paidOut>>

\* a payout that only the validator's manager may trigger
callerMayPayOut_ManagerOnly(sender) == sender = ValidatorList[ValidatorID].Manager

\* StakingPool.epochBalanceUpdate: 'ANYONE can call this', the sender is not read
callerMayPayOut(sender) == TRUE

\* StakingPool.epochBalanceUpdate on pool p, sent by sender
EpochBalanceUpdateBy(sender, p) ==
    /\ Confirmed
    /\ callerMayPayOut(sender)
    /\ poolState[p].created
    /\ epochHasPassed(now, poolState[p].LastPayout)
    /\ \E r \in {epochBalanceUpdate(p)} :
        LET cb == stakeUpdatedViaRewards(poolKeyOf(p), r.increasedStake,
                                         validatorPools, validatorState)
        IN
        /\ r.ok
        /\ r.reported => isValidPoolCaller(poolKeyOf(p), PoolAppIDOf(p))
        /\ poolState' = [poolState EXCEPT ![p] = r.pool]
        /\ Stakers' = [Stakers EXCEPT ![p] = r.slots]
        /\ balance' = [balance EXCEPT ![p] = @ - r.validatorPay - r.feeSinkPay]
        /\ tokenPayoutRatio' = r.ratio
        /\ paidOut' = [commission |-> paidOut.commission + r.validatorPay,
                        feeSink |-> paidOut.feeSink + r.feeSinkPay]
        /\ validatorPools' = IF r.reported THEN cb.vpools ELSE validatorPools
        /\ validatorState' = IF r.reported
                             THEN rewardTokenCredited(cb.vstate, r.tokenRewardPaidOut)
                             ELSE validatorState
        /\ lastAdd' = NoAdd
        /\ UNCHANGED <<numValidators, ValidatorList, now, tokensReceived, StakerPoolSet, tokenBalance>>

\* StakingPool.epochBalanceUpdate on pool p, called by any account
EpochBalanceUpdate(p) == \E sender \in Accounts : EpochBalanceUpdateBy(sender, p)

\* block rewards (or any payment) arrive in the account of pool p
RewardPaidIn(p) ==
    /\ Confirmed
    /\ poolState[p].created
    /\ balance' = [balance EXCEPT ![p] = @ + RewardDeposit]
    /\ lastAdd' = NoAdd
    /\ UNCHANGED <<numValidators, ValidatorList, now, tokensReceived, validatorState, validatorPools, StakerPoolSet,
                   poolState, Stakers, tokenBalance, tokenPayoutRatio, paidOut>>

\* the validator sends reward tokens to pool #1, which has opted in
TokensPaidIn ==
    /\ Confirmed
    /\ RewardTokenID # 0
    /\ Stakers[1] # <<>>
    /\ tokenBalance + RewardPerPayout <= MaxTokenBalance
    /\ tokenBalance' = tokenBalance + RewardPerPayout
    /\ lastAdd' = NoAdd
    /\ UNCHANGED <<numValidators, ValidatorList, now, tokensReceived, validatorState, validatorPools, StakerPoolSet,
                   poolState, Stakers, balance, tokenPayoutRatio, paidOut>>

Next ==
    \/ Tick
    \/ AddPool
    \/ \E p \in PoolIDs : InitStorage(p)
    \/ \E a \in Accounts, amount \in MinStakeAmount .. MaxStakeAmount : AddStake(a, amount)
    \/ \E p \in PoolIDs, a \in Accounts, amount \in 0 .. MaxUnstakeAmount :
          RemoveStake(p, a, amount)
    \/ \E p \in PoolIDs, a \in Accounts : ClaimTokens(p, a)
    \/ \E p \in PoolIDs : EpochBalanceUpdate(p)
    \/ \E p \in PoolIDs : RewardPaidIn(p)
    \/ TokensPaidIn

Spec == Init /\ [][Next]_vars

-----------------------------------------------------------------------------
(* Quantities the properties are stated over *)

\* sums over the ledger of pool p
LedgerBalance(p) ==
    SumOf([i \in 1 .. Len(Stakers[p]) |-> Stakers[p][i].Balance])
LedgerTokenBalance(p) ==
    SumOf([i \in 1 .. Len(Stakers[p]) |-> Stakers[p][i].RewardTokenBalance])
LedgerOccupied(p) ==
    SumOf([i \in 1 .. Len(Stakers[p]) |->
             IF Stakers[p][i].Account # ZeroAddress THEN 1 ELSE 0])

\* sums over the pools of the validator
SumPools(f) == SumOf([p \in 1 .. MAX_POOLS |-> f[p]])
TotalLedgerBalance == SumPools([p \in PoolIDs |-> LedgerBalance(p)])
TotalLedgerTokenBalance == SumPools([p \in PoolIDs |-> LedgerTokenBalance(p)])
TotalLedgerOccupied == SumPools([p \in PoolIDs |-> LedgerOccupied(p)])
RegistryPoolsAlgo == SumPools([p \in PoolIDs |-> validatorPools[p].TotalAlgoStaked])
RegistryPoolsStakers == SumPools([p \in PoolIDs |-> validatorPools[p].TotalStakers])

\* the slots of pool p's ledger that staker holds
SlotsHeldBy(p, staker) ==
    {i \in 1 .. Len(Stakers[p]) : Stakers[p][i].Account = staker}

\* the pools of the validator that a key of staker's pool set names
PoolsKeyedFor(staker) ==
    {p \in PoolIDs : \E i \in 1 .. Len(StakerPoolSet[staker]) :
        /\ StakerPoolSet[staker][i].ID = ValidatorID
        /\ StakerPoolSet[staker][i].PoolID = p}

-----------------------------------------------------------------------------
(* Conservation *)

\* C1: conservation of stake.  In every reachable state the registry's
\* state.totalAlgoStaked equals the sum of pools[i].totalAlgoStaked over the
\* validator's pools, which equals the sum of the balances of all ledger
\* slots of all its pools.
C1_ConservationOfStake ==
    /\ validatorState.TotalAlgoStaked = RegistryPoolsAlgo
    /\ RegistryPoolsAlgo = TotalLedgerBalance

\* stake was added, a payout compounded a reward into a balance, and a
\* staker has since taken stake out
C1_Witness ==
    /\ validatorState.TotalAlgoStaked > 0
    /\ \E p \in PoolIDs : \E i \in 1 .. Len(Stakers[p]) :
          /\ Stakers[p][i].TotalRewarded > 0
          /\ Stakers[p][i].Balance < MinStakeAmount + Stakers[p][i].TotalRewarded

\* C2: conservation of staker counts.  In every reachable state the
\* registry's state.totalStakers equals the sum of pools[i].totalStakers,
\* which equals the number of ledger slots whose account is not zero.
C2_ConservationOfStakers ==
    /\ validatorState.TotalStakers = RegistryPoolsStakers
    /\ RegistryPoolsStakers = TotalLedgerOccupied

\* two pools hold stakers and one staker has left a pool for good
C2_Witness ==
    /\ \A p \in PoolIDs : validatorPools[p].TotalStakers > 0
    /\ \E a \in Accounts :
          /\ StakerPoolSet[a] # <<>>
          /\ \A p \in PoolIDs : SlotsHeldBy(p, a) = {}

-----------------------------------------------------------------------------
(* Placement of stakers *)

\* C3: in every reachable state a staker address occupies at most one slot
\* of any single pool's ledger.
C3_OneSlotPerPool ==
    \A p \in PoolIDs, a \in Accounts : Cardinality(SlotsHeldBy(p, a)) <= 1

\* the pools of the validator in whose ledger staker holds a slot
PoolsHolding(staker) == {p \in PoolIDs : SlotsHeldBy(p, staker) # {}}

C5_MembershipConsistency ==
    \A a \in Accounts : PoolsKeyedFor(a) = PoolsHolding(a)

-----------------------------------------------------------------------------
(* Limits on stake *)

\* C6: a pool's totalAlgoStaked never exceeds the validator's configured
\* maxAlgoPerPool in any reachable state, also after epochBalanceUpdate has
\* compounded rewards into the balances.
C6_PoolWithinCap ==
    \A p \in PoolIDs : poolState[p].TotalAlgoStaked <= MaxAlgoPerPool

\* C7: in every reachable state every occupied ledger slot has a balance of
\* at least the pool's minEntryStake; a removeStake that would leave less
\* (and more than nothing) fails.
C7_OccupiedSlotsAtLeastMinEntry ==
    \A p \in PoolIDs : \A i \in 1 .. Len(Stakers[p]) :
        Stakers[p][i].Account # ZeroAddress
        => Stakers[p][i].Balance >= poolState[p].MinEntryStake

\* a staker sits exactly at the minimum (taking out less than all would leave
\* a forbidden residual) and another staker has left for good, which freed
\* their slot
C7_Witness ==
    /\ \E p \in PoolIDs : \E i \in 1 .. Len(Stakers[p]) :
          /\ Stakers[p][i].Account # ZeroAddress
          /\ Stakers[p][i].Balance = poolState[p].MinEntryStake
    /\ \E a \in Accounts : StakerPoolSet[a] # <<>> /\ PoolsHolding(a) = {}
    /\ validatorState.TotalStakers = 1

-----------------------------------------------------------------------------
(* Reward token accounting *)

\* C8: token accounting.  In every reachable state the validator's
\* rewardTokenHeldBack equals the sum of rewardTokenBalance over every ledger
\* slot of every pool of the validator.
C8_TokenAccounting ==
    validatorState.RewardTokenHeldBack = TotalLedgerTokenBalance

\* tokens were credited in a payout, one staker has collected theirs from
\* pool #1 and another staker still holds a credit
C8_Witness ==
    /\ validatorState.RewardTokenHeldBack > 0
    /\ tokenBalance > 0
    /\ tokenBalance < RewardPerPayout

\* C9: when a reward token is configured, in every reachable state
\* rewardTokenHeldBack is at most pool #1's balance of the token, so what
\* pool #1 holds unassigned never underflows and every credited
\* rewardTokenBalance can be paid out of pool #1.
C9_HeldBackCovered ==
    RewardTokenID # 0 => validatorState.RewardTokenHeldBack <= tokenBalance

\* a payout has credited tokens that nobody has collected yet
C9_Witness ==
    /\ RewardTokenID # 0
    /\ validatorState.RewardTokenHeldBack > 0
    /\ tokenBalance >= RewardPerPayout
    /\ TotalLedgerTokenBalance > 0

-----------------------------------------------------------------------------
(* Payout times *)

\* C10: lastPayout is set to the current time when a pool is created, and
\* every successful epochBalanceUpdate on a pool moves it strictly forward,
\* to the current time, which is at least payoutEveryXMins * 60 seconds after
\* the prior lastPayout; nothing else changes it.
C10_MonotoneLastPayout ==
    [][\A p \in PoolIDs :
         /\ (~poolState[p].created /\ poolState'[p].created)
            => poolState'[p].LastPayout = now'
         /\ EpochBalanceUpdate(p)
            => /\ poolState'[p].LastPayout > poolState[p].LastPayout
               /\ now - poolState[p].LastPayout >= PayoutEveryXMins * 60
         /\ (poolState[p].created
               /\ poolState'[p].LastPayout # poolState[p].LastPayout)
            => /\ poolState'[p].LastPayout > poolState[p].LastPayout
               /\ poolState'[p].LastPayout = now
               /\ now - poolState[p].LastPayout >= PayoutEveryXMins * 60]_vars

\* a pool created during the run, at StartTime or later, has since paid out
\* a reward to one of its stakers
C10_Witness ==
    /\ MAX_POOLS >= 2
    /\ poolState[MAX_POOLS].created
    /\ poolState[MAX_POOLS].LastPayout >= StartTime + epochInSecs
    /\ \E i \in 1 .. Len(Stakers[MAX_POOLS]) :
          Stakers[MAX_POOLS][i].TotalRewarded > 0

-----------------------------------------------------------------------------
(* Epoch payouts *)

\* what pool p's account holds beyond its stake and its minimum balance
algoRewardOf(p) == balance[p] - poolState[p].TotalAlgoStaked - minBalance(p)

\* C11: epochBalanceUpdate called when now - lastPayout < epochSecs fails:
\* the call is rejected as a whole, so no step of epochBalanceUpdate is
\* possible and lastPayout, the ledger, the totals and the balances stay as
\* they are.
C11_EpochTooEarlyFails ==
    \A p \in PoolIDs :
        (poolState[p].created /\ now - poolState[p].LastPayout < epochInSecs)
        => /\ ~epochBalanceUpdate(p).ok
           /\ ~ENABLED EpochBalanceUpdate(p)

\* a pool has paid out, less than an epoch has passed since, and a reward of
\* more than 1 ALGO waits in its account: only the epoch gate stops a payout
C11_Witness ==
    \E p \in PoolIDs :
        /\ poolState[p].created
        /\ poolState[p].LastPayout >= StartTime
        /\ now - poolState[p].LastPayout = TickSecs
        /\ TickSecs < epochInSecs
        /\ LedgerOccupied(p) > 0
        /\ algoRewardOf(p) > OneAlgo
        /\ paidOut.commission > 0
        /\ txnCount < MaxTxns

\* the validator's stake is above the protocol's limit
capExceeded == validatorState.TotalAlgoStaked > maxAllowedStake

\* the occupied slots of pool p whose staker has been in for a whole epoch
FullEpochSlots(p) ==
    {i \in 1 .. Len(Stakers[p]) :
        /\ Stakers[p][i].Account # ZeroAddress
        /\ Stakers[p][i].EntryTime < now
        /\ now - Stakers[p][i].EntryTime >= epochInSecs}

\* the occupied slots of pool p whose staker gets a share for part of the epoch
PartialEpochSlots(p) ==
    {i \in 1 .. Len(Stakers[p]) :
        /\ Stakers[p][i].Account # ZeroAddress
        /\ Stakers[p][i].EntryTime <= now
        /\ now - Stakers[p][i].EntryTime < epochInSecs}

\* C12: when the protocol cap is not exceeded, the commission an epoch payout
\* sends to the validator is floor(algoRewardAvail * pctToValidator /
\* 1_000_000) of the pool's balance less its stake and minimum balance, taken
\* before any staker is credited; the stakers share algoRewardAvail less
\* exactly that amount (a single staker in for the whole epoch gets all of it).
C12_CommissionCorrect ==
    [][\A p \in PoolIDs :
         (EpochBalanceUpdate(p) /\ ~capExceeded)
         => LET commission == (algoRewardOf(p) * PercentToValidator) \div 1000000
                credited == poolState'[p].TotalAlgoStaked
                              - poolState[p].TotalAlgoStaked
            IN  /\ paidOut'.commission = paidOut.commission + commission
                /\ paidOut'.feeSink = paidOut.feeSink
                /\ balance'[p] = balance[p] - commission
                /\ credited <= algoRewardOf(p) - commission
                /\ (LedgerOccupied(p) = 1 /\ FullEpochSlots(p) # {})
                   => credited = algoRewardOf(p) - commission]_vars

\* a payout below the protocol cap has paid a commission and has given a
\* single staker, in for the whole epoch, all the rest
C12_Witness ==
    /\ paidOut.commission > 0
    /\ paidOut.feeSink = 0
    /\ \E p \in PoolIDs : \E i \in 1 .. Len(Stakers[p]) :
          /\ Stakers[p][i].TotalRewarded = RewardDeposit - paidOut.commission
          /\ algoRewardOf(p) = 0

\* C13 as stated: in every successful epochBalanceUpdate below the protocol
\* cap, for every mix of partial-epoch and full-epoch stakers, the algo
\* credited to stakers plus the validator's pay is at most the initial
\* algoReward and at least the initial algoReward less (numStakers + 1).
C13_AllocationConservation ==
    [][\A p \in PoolIDs :
         (EpochBalanceUpdate(p) /\ ~capExceeded)
         => LET credited == poolState'[p].TotalAlgoStaked
                              - poolState[p].TotalAlgoStaked
                validatorPay == paidOut'.commission - paidOut.commission
            IN  /\ credited + validatorPay <= algoRewardOf(p)
                /\ credited + validatorPay
                     >= algoRewardOf(p) - (poolState[p].NumStakers + 1)]_vars

\* C13 as amended: the sum is at most the initial algoReward for every mix
\* of stakers, and it is at least the initial algoReward less
\* (numStakers + 1) when at least one staker has been in for the whole epoch
\* (otherwise the second pass credits nobody and the rest stays in the pool).
C13_AllocationConservationWithFullStaker ==
    [][\A p \in PoolIDs :
         (EpochBalanceUpdate(p) /\ ~capExceeded)
         => LET credited == poolState'[p].TotalAlgoStaked
                              - poolState[p].TotalAlgoStaked
                validatorPay == paidOut'.commission - paidOut.commission
            IN  /\ credited + validatorPay <= algoRewardOf(p)
                /\ FullEpochSlots(p) # {}
                   => credited + validatorPay
                        >= algoRewardOf(p) - (poolState[p].NumStakers + 1)]_vars

\* a payout has just credited a staker in for the whole epoch and, less, a
\* staker in for part of it
C13_Witness ==
    \E p \in PoolIDs : \E i, j \in 1 .. Len(Stakers[p]) :
        /\ poolState[p].LastPayout = now
        /\ Stakers[p][i].Account # ZeroAddress
        /\ Stakers[p][j].Account # ZeroAddress
        /\ Stakers[p][i].EntryTime + epochInSecs <= now
        /\ Stakers[p][j].EntryTime + epochInSecs > now
        /\ Stakers[p][j].TotalRewarded > 0
        /\ Stakers[p][i].TotalRewarded > Stakers[p][j].TotalRewarded

-----------------------------------------------------------------------------
(* Round trip of a stake *)

\* a removeStake of amount `amt` straight after the addStake in lastAdd
\* puts the totals back
RestoresTotals(amt) ==
    \A p \in PoolIDs, s \in Accounts :
        (/\ RemoveStake(p, s, amt)
         /\ lastAdd.staker = s
         /\ lastAdd.PoolID = p)
        => /\ poolState'[p].NumStakers = lastAdd.NumStakers
           /\ poolState'[p].TotalAlgoStaked = lastAdd.TotalAlgoStaked
           /\ \A i \in PoolIDs :
                /\ validatorPools'[i].TotalStakers = lastAdd.Pools[i].TotalStakers
                /\ validatorPools'[i].TotalAlgoStaked
                     = lastAdd.Pools[i].TotalAlgoStaked
           /\ validatorState'.TotalStakers = lastAdd.State.TotalStakers
           /\ validatorState'.TotalAlgoStaked = lastAdd.State.TotalAlgoStaked
           /\ lastAdd.hadNoKey
              => \A k \in 1 .. Len(StakerPoolSet'[s]) :
                    StakerPoolSet'[s][k] = EmptyPoolKey

\* C15 as stated: straight after a registry addStake(amount) by s, s's
\* removeStake(amount) on the chosen pool goes through and puts back the
\* pool's numStakers and totalAlgoStaked and the registry's pool and validator
\* totals, and leaves StakerPoolSet[s] without a key if it had none before.
C15_RoundTrip ==
    /\ [](lastAdd # NoAdd /\ txnCount < MaxTxns
          => ENABLED RemoveStake(lastAdd.PoolID, lastAdd.staker, lastAdd.amount))
    /\ [][lastAdd # NoAdd => RestoresTotals(lastAdd.amount)]_vars

\* C15 as amended: the same of a removeStake of the amount that reached the
\* pool, which is the amount paid less AddStakerMbr when it was s's first
\* stake with the registry.
C15_RoundTripOfForwardedAmount ==
    /\ [](lastAdd # NoAdd /\ txnCount < MaxTxns
          => ENABLED RemoveStake(lastAdd.PoolID, lastAdd.staker, lastAdd.forwarded))
    /\ [][lastAdd # NoAdd => RestoresTotals(lastAdd.forwarded)]_vars

\* a staker's first stake and its removal were the only two calls so far
C15_Witness ==
    /\ txnCount = 2
    /\ lastAdd = NoAdd
    /\ validatorState.TotalStakers = 0
    /\ validatorState.TotalAlgoStaked = 0
    /\ \E s \in Accounts :
          /\ StakerPoolSet[s] # <<>>
          /\ \A k \in 1 .. Len(StakerPoolSet[s]) : StakerPoolSet[s][k] = EmptyPoolKey
    /\ \E p \in PoolIDs :
          /\ Stakers[p] # <<>>
          /\ Stakers[p][1].Account = ZeroAddress
          /\ Stakers[p][1].EntryTime > 0
          /\ balance[p] = minBalance(p)

-----------------------------------------------------------------------------
(* Protocol cap *)

\* C16: when the validator's total stake exceeds maxAllowedStake at payout
\* time, epochBalanceUpdate pays the whole algoReward to the fee sink and no
\* commission, leaves every staker's Balance and TotalRewarded as they were
\* and reports no increased stake.
C16_CapRedirect ==
    [][\A p \in PoolIDs :
         (EpochBalanceUpdate(p) /\ capExceeded)
         => /\ paidOut'.feeSink = paidOut.feeSink + algoRewardOf(p)
            /\ paidOut'.commission = paidOut.commission
            /\ balance'[p] = balance[p] - algoRewardOf(p)
            /\ \A i \in 1 .. Len(Stakers[p]) :
                  /\ Stakers'[p][i].Balance = Stakers[p][i].Balance
                  /\ Stakers'[p][i].TotalRewarded = Stakers[p][i].TotalRewarded
            /\ epochBalanceUpdate(p).increasedStake = 0
            /\ poolState'[p].TotalAlgoStaked = poolState[p].TotalAlgoStaked
            /\ validatorState'.TotalAlgoStaked = validatorState.TotalAlgoStaked]_vars

\* the fee sink has received a pool's reward while the pool's stakers, over
\* the protocol cap together with the other pool's, were credited nothing
C16_Witness ==
    /\ capExceeded
    /\ paidOut.feeSink > 0
    /\ paidOut.commission = 0
    /\ \E p \in PoolIDs :
          /\ poolState[p].LastPayout = now
          /\ LedgerOccupied(p) > 0
          /\ algoRewardOf(p) = 0
          /\ \A i \in 1 .. Len(Stakers[p]) : Stakers[p][i].TotalRewarded = 0

-----------------------------------------------------------------------------
(* Calls from the pools *)

\* the accounts that can send a call to the registry: stakers, the pools and
\* applications deployed outside the registry
CallSenders ==
    Accounts \cup {PoolAppIDOf(p) : p \in PoolIDs}
             \cup {RogueAppIDOf(p) : p \in PoolIDs}

\* the pool keys a caller can pass
CallPoolKeys ==
    [ID : ValidatorID .. ValidatorID + 1, PoolID : 0 .. MAX_POOLS + 1,
     PoolAppID : {0} \cup {PoolAppIDOf(p) : p \in PoolIDs}
                     \cup {RogueAppIDOf(p) : p \in PoolIDs}]

\* C17: stakeRemoved and stakeUpdatedViaRewards change the registry only when
\* the validator exists and 1 <= poolId <= numPools, pools[poolId-1].poolAppId
\* is the key's poolAppId, the sender is the account of that app, and that
\* app's validatorID and poolID globals are the claimed ids: only the pool
\* the registry created under the key passes, and the calls the pools make
\* in removeStake and epochBalanceUpdate pass.
C17_CallbackAuthentication ==
    /\ [](\A poolKey \in CallPoolKeys, sender \in CallSenders :
            isValidPoolCaller(poolKey, sender)
            => /\ poolKey.ID = ValidatorID
               /\ poolKey.PoolID \in 1 .. validatorState.NumPools
               /\ validatorPools[poolKey.PoolID].PoolAppID = poolKey.PoolAppID
               /\ sender = poolKey.PoolAppID
               /\ poolState[poolKey.PoolID].created
               /\ sender = PoolAppIDOf(poolKey.PoolID)
               /\ poolState[poolKey.PoolID].ValidatorID = poolKey.ID
               /\ poolState[poolKey.PoolID].PoolID = poolKey.PoolID)
    /\ [][\A p \in PoolIDs :
            (validatorPools'[p] # validatorPools[p]
             /\ ~(\E a \in Accounts, amount \in MinStakeAmount .. MaxStakeAmount :
                     AddStake(a, amount))
             /\ ~AddPool)
            => isValidPoolCaller(poolKeyOf(p), PoolAppIDOf(p))]_vars

\* a staker has left the second pool, whose own call the registry accepts
\* while it rejects the same key sent by, or naming, a copy of that pool
C17_Witness ==
    /\ validatorState.NumPools = MAX_POOLS
    /\ Stakers[MAX_POOLS] # <<>>
    /\ Stakers[MAX_POOLS][1].Account = ZeroAddress
    /\ Stakers[MAX_POOLS][1].EntryTime > 0
    /\ isValidPoolCaller(poolKeyOf(MAX_POOLS), PoolAppIDOf(MAX_POOLS))
    /\ ~isValidPoolCaller(poolKeyOf(MAX_POOLS), RogueAppIDOf(MAX_POOLS))
    /\ ~isValidPoolCaller([poolKeyOf(MAX_POOLS) EXCEPT
                             !.PoolAppID = RogueAppIDOf(MAX_POOLS)],
                          RogueAppIDOf(MAX_POOLS))

-----------------------------------------------------------------------------
(* Choice of a pool *)

\* C18: findPoolForStaker returns the first key of the staker's StakerPoolSet
\* for the validator whose pool has totalAlgoStaked + amount <= maxAlgoPerPool,
\* else the first of the created pools pools[0..numPools) with that room, else
\* (validatorId, 0, 0); so a stake bringing a pool to exactly maxAlgoPerPool
\* is placed and no pool that was not created is returned.
C18_FindPoolReference ==
    \A staker \in Accounts, amount \in MinStakeAmount .. MaxStakeAmount :
        LET poolSet == StakerPoolSet[staker]
            hasRoom(pid) ==
                validatorPools[pid].TotalAlgoStaked + amount <= MaxAlgoPerPool
            inSet == {i \in 1 .. Len(poolSet) :
                        poolSet[i].ID = ValidatorID /\ hasRoom(poolSet[i].PoolID)}
            created == {i \in 1 .. validatorState.NumPools : hasRoom(i)}
            first(S) == CHOOSE i \in S : \A j \in S : i <= j
            expected ==
                IF inSet # {} THEN poolSet[first(inSet)]
                ELSE IF created # {}
                THEN [ID |-> ValidatorID, PoolID |-> first(created),
                      PoolAppID |-> validatorPools[first(created)].PoolAppID]
                ELSE [ID |-> ValidatorID, PoolID |-> 0, PoolAppID |-> 0]
            found == findPoolForStaker(staker, amount)
        IN  found.ok
            => /\ found.key = expected
               /\ found.key.PoolID <= validatorState.NumPools

\* C19: when no pool of the validator can take the amount, the registry's
\* addStake fails with NoPoolAvailable and changes nothing.
C19_NoPoolAvailable ==
    \A staker \in Accounts, amount \in MinStakeAmount .. MaxStakeAmount :
        (\A i \in 1 .. validatorState.NumPools :
            validatorPools[i].TotalAlgoStaked + amount > MaxAlgoPerPool)
        => /\ addStakeError(staker, amount) = "NoPoolAvailable"
           /\ ~ENABLED AddStake(staker, amount)

-----------------------------------------------------------------------------
(* Failures of removeStake *)

\* C20: removeStake fails with AccountNotFound when the caller has no slot in
\* the ledger, with InsufficientBalance when the slot's balance is below
\* amountToUnstake, and fails when the balance left would be non-zero and
\* below minEntryStake; the call then changes nothing.
C20_RemoveStakeErrors ==
    \A p \in PoolIDs, staker \in Accounts, amountToUnstake \in 0 .. MaxUnstakeAmount :
        Stakers[p] # <<>>
        => LET held == {k \in 1 .. Len(Stakers[p]) : Stakers[p][k].Account = staker}
               slot == CHOOSE k \in held : \A j \in held : k <= j
               stakerBalance == Stakers[p][slot].Balance
               left == stakerBalance - amountToUnstake
               r == removeStake(p, staker, amountToUnstake)
           IN  /\ held = {}
                  => /\ r.error = "AccountNotFound"
                     /\ ~ENABLED RemoveStake(p, staker, amountToUnstake)
               /\ (held # {} /\ stakerBalance < amountToUnstake)
                  => /\ r.error = "InsufficientBalance"
                     /\ ~ENABLED RemoveStake(p, staker, amountToUnstake)
               /\ (held # {} /\ amountToUnstake # 0
                   /\ left > 0 /\ left < poolState[p].MinEntryStake)
                  => /\ ~r.ok
                     /\ ~ENABLED RemoveStake(p, staker, amountToUnstake)

\* a pool with a staker holding exactly minEntryStake who cannot take out
\* part of it nor more than it, and an account that is not in the ledger
C20_Witness ==
    \E p \in PoolIDs, a, b \in Accounts :
        /\ Stakers[p] # <<>>
        /\ txnCount < MaxTxns
        /\ \E k \in 1 .. Len(Stakers[p]) :
              /\ Stakers[p][k].Account = a
              /\ Stakers[p][k].Balance = MinEntryStake
        /\ \A k \in 1 .. Len(Stakers[p]) : Stakers[p][k].Account # b
        /\ StakerPoolSet[b] # <<>>
        /\ removeStake(p, b, 0).error = "AccountNotFound"
        /\ removeStake(p, a, MinEntryStake + 1).error = "InsufficientBalance"
        /\ removeStake(p, a, MinEntryStake - 1).error = "BelowMinimum"
        /\ removeStake(p, a, MinEntryStake).ok

-----------------------------------------------------------------------------
(* Reward tokens leaving the pools *)

\* C21: a successful claimTokens by staker s leaves s's Balance, TotalRewarded
\* and EntryTime, every other slot, the pool's NumStakers and TotalAlgoStaked,
\* the registry's stake and staker counters and StakerPoolSet[s] as they
\* were; only s's RewardTokenBalance becomes 0 and rewardTokenHeldBack drops
\* by the amount claimed.
C21_ClaimTokensLeavesStake ==
    [][\A p \in PoolIDs, s \in Accounts :
         ClaimTokens(p, s)
         => LET held == {k \in 1 .. Len(Stakers[p]) : Stakers[p][k].Account = s}
                slot == CHOOSE k \in held : \A j \in held : k <= j
                claimed == Stakers[p][slot].RewardTokenBalance
            IN  /\ held # {}
                /\ Stakers'[p] = [Stakers[p] EXCEPT ![slot].RewardTokenBalance = 0]
                /\ \A q \in PoolIDs \ {p} : Stakers'[q] = Stakers[q]
                /\ poolState' = poolState
                /\ balance' = balance
                /\ validatorPools' = validatorPools
                /\ StakerPoolSet' = StakerPoolSet
                /\ validatorState' = [validatorState EXCEPT
                                        !.RewardTokenHeldBack = @ - claimed]]_vars

\* a staker still in a pool has collected the tokens a payout credited
C21_Witness ==
    \E p \in PoolIDs, s \in Accounts :
        /\ tokensReceived[s] > 0
        /\ \E k \in 1 .. Len(Stakers[p]) :
              /\ Stakers[p][k].Account = s
              /\ Stakers[p][k].RewardTokenBalance = 0
              /\ Stakers[p][k].Balance >= MinEntryStake
        /\ PoolsKeyedFor(s) # {}

\* the accounts that can send a call to a pool: those of CallSenders and the
\* registry
PoolCallSenders == CallSenders \cup {RegistryAppID}

\* C22: payTokenReward transfers tokens only when the caller is the registry's
\* account, the callee is pool #1 and rewardTokenId is not 0; any other
\* caller, and any pool other than #1, is rejected.
C22_PayTokenRewardGuard ==
    \A p \in PoolIDs, sender \in PoolCallSenders,
       rewardToken \in {0, RewardTokenID}, amountToSend \in {1, RewardPerPayout} :
        (poolState[p].created /\ payTokenReward(p, sender, rewardToken, amountToSend).ok)
        => /\ sender = RegistryAppID
           /\ p = 1
           /\ rewardToken # 0
           /\ amountToSend <= tokenBalance

\* a staker of the second pool has received tokens although pool #1 has
\* credited none: the registry had pool #1 pay them
C22_Witness ==
    \E s \in Accounts :
        /\ tokensReceived[s] > 0
        /\ poolState[1].LastPayout = PoolOneCreated
        /\ \A k \in 1 .. Len(Stakers[1]) : Stakers[1][k].RewardTokenBalance = 0
        /\ tokenBalance = RewardPerPayout - tokensReceived[s]
        /\ payTokenReward(1, RegistryAppID, RewardTokenID, tokenBalance).ok
        /\ \A p \in PoolIDs, sender \in PoolCallSenders \ {RegistryAppID} :
              ~payTokenReward(p, sender, RewardTokenID, tokenBalance).ok

-----------------------------------------------------------------------------
(* The token payout ratio *)

\* C23: proxiedSetTokenPayoutRatio forwards to the registry's
\* setTokenPayoutRatio only when the callee is pool #1, the pool key names the
\* callee's validator and a pool other than #1, the registry's app id for that
\* pool is the key's PoolAppID and the sender is that app's account; any other
\* call is rejected, and the snapshot is refreshed by a payout of pool #1 or
\* by such a call only.
C23_ProxiedRatioGuard ==
    /\ [](\A callee \in PoolIDs, poolKey \in CallPoolKeys, sender \in PoolCallSenders :
            isSiblingPoolCaller(callee, poolKey, sender)
            => /\ callee = 1
               /\ poolKey.ID = ValidatorID
               /\ poolKey.PoolID # 1
               /\ poolKey.PoolID \in 2 .. validatorState.NumPools
               /\ validatorPools[poolKey.PoolID].PoolAppID = poolKey.PoolAppID
               /\ sender = poolKey.PoolAppID
               /\ sender = PoolAppIDOf(poolKey.PoolID)
               /\ poolState[poolKey.PoolID].created)
    /\ [][tokenPayoutRatio' # tokenPayoutRatio
          => \E p \in PoolIDs :
                /\ EpochBalanceUpdate(p)
                /\ p # 1 => isSiblingPoolCaller(1, poolKeyOf(p), PoolAppIDOf(p))]_vars

\* the second pool has paid out tokens on a snapshot it had pool #1 take,
\* pool #1 not having paid out itself
C23_Witness ==
    /\ poolState[1].LastPayout = PoolOneCreated
    /\ tokenPayoutRatio.UpdatedForPayout = PoolOneCreated
    /\ tokenPayoutRatio.PoolPctOfWhole[MAX_POOLS] > 0
    /\ poolState[MAX_POOLS].created
    /\ poolState[MAX_POOLS].LastPayout = now
    /\ \E k \in 1 .. Len(Stakers[MAX_POOLS]) :
          Stakers[MAX_POOLS][k].RewardTokenBalance > 0

-----------------------------------------------------------------------------
(* The registry before its first pool: validators are added *)

\* number of validators a run adds at most
MaxValidators == 2

\* the owners and managers a caller can pass
OwnerCandidates == {ZeroAddress, 1}

\* the configs a caller can pass: each field at, and just outside, its bounds
ConfigCandidates ==
    [PayoutEveryXDays : {MIN_PAYOUT_DAYS - 1, MIN_PAYOUT_DAYS,
                         MAX_PAYOUT_DAYS, MAX_PAYOUT_DAYS + 1},
     PercentToValidator : {MIN_PCT_TO_VALIDATOR - 1, MIN_PCT_TO_VALIDATOR,
                           MAX_PCT_TO_VALIDATOR, MAX_PCT_TO_VALIDATOR + 1,
                           10 * MAX_PCT_TO_VALIDATOR},
     ValidatorCommissionAddress : {ZeroAddress, 1},
     MinAllowedStake : {MIN_ALGO_STAKE_PER_POOL - 1, MIN_ALGO_STAKE_PER_POOL},
     MaxAlgoPerPool : {MAX_ALGO_PER_POOL, MAX_ALGO_PER_POOL + 1},
     PoolsPerNode : {0, 1, MAX_POOLS_PER_NODE, MAX_POOLS_PER_NODE + 1},
     MaxNodes : {0, 1, MAX_NODES, MAX_NODES + 1}]

\* the registry right after its creation: no validator, no pool
InitRegistry ==
    /\ now = StartTime
    /\ numValidators = 0
    /\ ValidatorList = <<>>
    /\ validatorState = [NumPools |-> 0, TotalStakers |-> 0,
                         TotalAlgoStaked |-> 0, RewardTokenHeldBack |-> 0]
    /\ validatorPools = [i \in PoolIDs |-> EmptyPoolInfo]
    /\ StakerPoolSet = [a \in Accounts |-> <<>>]
    /\ poolState = [i \in PoolIDs |-> NoPool]
    /\ Stakers = [i \in PoolIDs |-> <<>>]
    /\ balance = [i \in PoolIDs |-> 0]
    /\ tokenBalance = 0
    /\ tokenPayoutRatio = [PoolPctOfWhole |-> [i \in PoolIDs |-> 0],
                           UpdatedForPayout |-> 0]
    /\ paidOut = [commission |-> 0, feeSink |-> 0]
    /\ txnCount = 0
    /\ lastAdd = NoAdd
    /\ tokensReceived = [a \in Accounts |-> 0]

\* ValidatorRegistry.addValidator
AddValidator(owner, manager, nfdAppID, config) ==
    LET validatorID == numValidators + 1 IN
    /\ Confirmed
    /\ numValidators < MaxValidators
    /\ owner # ZeroAddress
    /\ manager # ZeroAddress
    /\ validateConfig(config)
    /\ numValidators' = validatorID
    /\ ValidatorList' = Append(ValidatorList,
                               [ID |-> validatorID, Owner |-> owner,
                                Manager |-> manager, NFDForInfo |-> nfdAppID,
                                Config |-> config, Nodes |-> <<"foo">>])
    /\ UNCHANGED <<now, validatorState, validatorPools, StakerPoolSet, poolState,
                   Stakers, balance, tokenBalance, tokenPayoutRatio, paidOut,
                   lastAdd, tokensReceived>>

NextRegistry ==
    \E owner \in OwnerCandidates, manager \in OwnerCandidates,
       config \in ConfigCandidates : AddValidator(owner, manager, 0, config)

SpecRegistry == InitRegistry /\ [][NextRegistry]_vars

-----------------------------------------------------------------------------
\* C25: in every reachable state validator 1's numPools is at most
\* config.maxNodes * config.poolsPerNode, addPool fails once numPools has
\* reached that cap, and pools are only appended: numPools never decreases and
\* the poolAppId of an existing pool never changes.
C25_PoolCap ==
    /\ [](/\ validatorState.NumPools
             <= ValidatorList[ValidatorID].Config.MaxNodes
                * ValidatorList[ValidatorID].Config.PoolsPerNode
          /\ validatorState.NumPools
             >= ValidatorList[ValidatorID].Config.MaxNodes
                * ValidatorList[ValidatorID].Config.PoolsPerNode
             => ~ENABLED AddPool)
    /\ [][/\ validatorState'.NumPools >= validatorState.NumPools
          /\ \A i \in 1 .. validatorState.NumPools :
                validatorPools'[i].PoolAppID = validatorPools[i].PoolAppID]_vars

-----------------------------------------------------------------------------
-----------------------------------------------------------------------------
-----------------------------------------------------------------------------
-----------------------------------------------------------------------------
\* C29: in an epochBalanceUpdate with pool total S and R left for the stakers,
\* a staker in for part of the epoch (0 <= timeInPool < epochSecs) is credited
\* floor(R * balance * timePercent / (S * 1000)) with timePercent =
\* floor(timeInPool * 1000 / epochSecs), and a staker in for the whole epoch is
\* credited floor(residual * balance / (S - partialTotal)), where residual is R
\* less all the credits of the stakers in for part of the epoch.
C29_TwoPassFormula ==
    [][\A p \in PoolIDs :
         EpochBalanceUpdate(p)
         => LET S == poolState[p].TotalAlgoStaked
                R == epochBalanceUpdate(p).algoLeft
                credit == [i \in 1 .. Len(Stakers[p]) |->
                             Stakers'[p][i].Balance - Stakers[p][i].Balance]
                partialTotal ==
                    SumOf([i \in 1 .. Len(Stakers[p]) |->
                             IF Stakers[p][i].Account # ZeroAddress
                                /\ i \notin FullEpochSlots(p)
                             THEN Stakers[p][i].Balance ELSE 0])
                residual ==
                    R - SumOf([i \in 1 .. Len(Stakers[p]) |->
                                 IF i \in PartialEpochSlots(p) THEN credit[i] ELSE 0])
            IN  /\ \A i \in PartialEpochSlots(p) :
                      credit[i] =
                        (R * Stakers[p][i].Balance
                           * (((now - Stakers[p][i].EntryTime) * 1000) \div epochInSecs))
                        \div (S * 1000)
                /\ \A i \in FullEpochSlots(p) :
                      credit[i] = (residual * Stakers[p][i].Balance)
                                    \div (S - partialTotal)]_vars

-----------------------------------------------------------------------------
\* C30: when every occupied slot of a pool holds a staker that was not in for
\* the whole epoch (effectiveStake = S - partialTotal = 0), a payout that is
\* due on more than 1 ALGO of reward still succeeds (no check of the call and
\* none of the registry's on the report fails); the second pass credits
\* nobody, so each staker gets its first-pass share only, and what the first
\* pass did not allocate goes nowhere else: it stays in the pool's balance and
\* is the algoReward = B - S - M the next payout starts from.
C30_AllPartialRollsOver ==
    /\ [](\A p \in PoolIDs :
            (/\ poolState[p].created
             /\ epochHasPassed(now, poolState[p].LastPayout)
             /\ LedgerOccupied(p) > 0
             /\ FullEpochSlots(p) = {}
             /\ algoRewardOf(p) > OneAlgo)
            => /\ epochBalanceUpdate(p).ok
               /\ isValidPoolCaller(poolKeyOf(p), PoolAppIDOf(p)))
    /\ [][\A p \in PoolIDs :
            (EpochBalanceUpdate(p) /\ LedgerOccupied(p) > 0 /\ FullEpochSlots(p) = {})
            => LET S == poolState[p].TotalAlgoStaked
                   validatorPay == paidOut'.commission - paidOut.commission
                   feeSinkPay == paidOut'.feeSink - paidOut.feeSink
                   R == algoRewardOf(p) - validatorPay - feeSinkPay
                   credit == [i \in 1 .. Len(Stakers[p]) |->
                                Stakers'[p][i].Balance - Stakers[p][i].Balance]
                   before == [i \in 1 .. Len(Stakers[p]) |->
                                SumOf([j \in 1 .. Len(Stakers[p]) |->
                                         IF j < i THEN credit[j] ELSE 0])]
                   credited == SumOf(credit)
               IN  /\ effectiveStake(S, SumOf([i \in 1 .. Len(Stakers[p]) |->
                                                 Stakers[p][i].Balance])) = 0
                   /\ \A i \in 1 .. Len(Stakers[p]) :
                         credit[i] =
                           IF i \in PartialEpochSlots(p)
                           THEN ((R - before[i]) * Stakers[p][i].Balance
                                   * (((now - Stakers[p][i].EntryTime) * 1000)
                                        \div epochInSecs))
                                \div (S * 1000)
                           ELSE 0
                   /\ validatorPay = IF capExceeded THEN 0
                                     ELSE (algoRewardOf(p) * PercentToValidator)
                                            \div 1000000
                   /\ feeSinkPay = IF capExceeded THEN algoRewardOf(p) ELSE 0
                   /\ balance'[p] = balance[p] - validatorPay - feeSinkPay
                   /\ poolState'[p].TotalAlgoStaked = S + credited
                   /\ algoRewardOf(p)' = R - credited
                   /\ algoRewardOf(p)' >= 0]_vars

\* a payout has just been made on a pool whose two stakers were both in for
\* part of the epoch: both were credited and part of the reward is left in
\* the pool's account
C30_Witness ==
    \E p \in PoolIDs :
        /\ poolState[p].LastPayout = now
        /\ LedgerOccupied(p) = 2
        /\ \A i \in 1 .. Len(Stakers[p]) :
              /\ Stakers[p][i].EntryTime + epochInSecs > now
              /\ Stakers[p][i].TotalRewarded > 0
        /\ paidOut.commission > 0
        /\ algoRewardOf(p) > 0

-----------------------------------------------------------------------------
(* Entry times *)

\* the occupied slots of pool p whose staker's entry time is still ahead
ForwardDatedSlots(p) ==
    {i \in 1 .. Len(Stakers[p]) :
        /\ Stakers[p][i].Account # ZeroAddress
        /\ Stakers[p][i].EntryTime > now}

\* C31: in an epochBalanceUpdate a staker whose entryTime is later than the
\* payout time is credited no algo and no tokens (its slot is left as it is),
\* while its balance is part of partialTotal: the stakers in for the whole
\* epoch share what the first pass left over S - partialTotal, a stake that
\* does not include the forward-dated balance.
C31_ForwardDatedGetsNothing ==
    [][\A p \in PoolIDs :
         (EpochBalanceUpdate(p) /\ ForwardDatedSlots(p) # {})
         => LET S == poolState[p].TotalAlgoStaked
                slots == 1 .. Len(Stakers[p])
                r == epochBalanceUpdate(p)
                credit == [i \in slots |->
                             Stakers'[p][i].Balance - Stakers[p][i].Balance]
                tokenCredit == [i \in slots |->
                                  Stakers'[p][i].RewardTokenBalance
                                    - Stakers[p][i].RewardTokenBalance]
                forwardTotal ==
                    SumOf([i \in slots |->
                             IF i \in ForwardDatedSlots(p)
                             THEN Stakers[p][i].Balance ELSE 0])
                partialTotal ==
                    forwardTotal
                      + SumOf([i \in slots |->
                                 IF i \in PartialEpochSlots(p)
                                 THEN Stakers[p][i].Balance ELSE 0])
                residual ==
                    r.algoLeft - SumOf([i \in slots |->
                                          IF i \in PartialEpochSlots(p)
                                          THEN credit[i] ELSE 0])
                tokenResidual ==
                    r.tokenRewardAvail
                      - SumOf([i \in slots |->
                                 IF i \in PartialEpochSlots(p)
                                 THEN tokenCredit[i] ELSE 0])
            IN  /\ \A i \in ForwardDatedSlots(p) :
                      /\ credit[i] = 0
                      /\ tokenCredit[i] = 0
                      /\ Stakers'[p][i] = Stakers[p][i]
                /\ forwardTotal > 0
                /\ \A i \in FullEpochSlots(p) :
                      /\ S - partialTotal > 0
                      /\ credit[i] = (residual * Stakers[p][i].Balance)
                                       \div (S - partialTotal)
                      /\ tokenCredit[i] = (tokenResidual * Stakers[p][i].Balance)
                                            \div (S - partialTotal)]_vars

\* a payout has just credited algo and tokens to a staker in for the whole
\* epoch, all that was left after the commission, and nothing to a staker of
\* the same pool whose entry time is still ahead
C31_Witness ==
    \E p \in PoolIDs : \E i, j \in 1 .. Len(Stakers[p]) :
        /\ poolState[p].LastPayout = now
        /\ Stakers[p][i].Account # ZeroAddress
        /\ Stakers[p][j].Account # ZeroAddress
        /\ Stakers[p][j].EntryTime > now
        /\ Stakers[p][j].Balance > 0
        /\ Stakers[p][j].TotalRewarded = 0
        /\ Stakers[p][j].RewardTokenBalance = 0
        /\ Stakers[p][i].EntryTime + epochInSecs <= now
        /\ Stakers[p][i].TotalRewarded = RewardDeposit - paidOut.commission
        /\ Stakers[p][i].RewardTokenBalance > 0
        /\ paidOut.commission > 0

\* the delay addStake dates an entry forward by: 320 * 28 / 10 seconds
EntryDelaySecs == 896

-----------------------------------------------------------------------------
(* The pool's addStake *)

\* the stakers a call may name: nobody, the accounts, and one account more
AddStakeStakers == {ZeroAddress} \cup (1 .. NumAccounts + 1)

\* the calls of pool p's addStake that are tried: the registry's, with its
\* payment to the pool of 1 .. MaxStakeAmount for any staker, and for staker 1
\* those with one thing wrong: sent by a staker or by an application deployed
\* outside the registry, paid by the staker, paid to the registry
AddStakeCalls(p) ==
    LET registryPays(amount) ==
            [sender |-> RegistryAppID, receiver |-> PoolAppIDOf(p), amount |-> amount]
    IN  {[sender |-> RegistryAppID, payment |-> registryPays(amount), staker |-> staker] :
            amount \in 1 .. MaxStakeAmount, staker \in AddStakeStakers}
        \cup {[sender |-> sender, payment |-> registryPays(amount), staker |-> 1] :
                 sender \in {1, RogueAppIDOf(1)},
                 amount \in MinStakeAmount .. MaxStakeAmount}
        \cup {[sender |-> RegistryAppID,
                payment |-> [registryPays(amount) EXCEPT !.sender = 1],
                staker |-> 1] : amount \in MinStakeAmount .. MaxStakeAmount}
        \cup {[sender |-> RegistryAppID,
                payment |-> [registryPays(amount) EXCEPT !.receiver = RegistryAppID],
                staker |-> 1] : amount \in MinStakeAmount .. MaxStakeAmount}

\* C33: the pool's addStake goes through only if the ledger exists, the
\* sender is the registry's account, the staker is not the zero address, the
\* payment is one from the registry to this pool and payment.amount +
\* totalAlgoStaked <= maxStakeAllowed; for a staker without a slot also only
\* if payment.amount >= minEntryStake and a slot is free (with no slot of the
\* staker and none free the call fails with PoolFull).  A rejected call
\* leaves numStakers, totalAlgoStaked and the ledger as they are, and the
\* registry's addStake that made the call does not happen.
C33_AddStakeGuard ==
    /\ [](\A p \in PoolIDs : \A call \in AddStakeCalls(p) :
              \A r \in {addStake(p, call.sender, call.payment, call.staker)} :
              LET sender == call.sender
                  payment == call.payment
                  staker == call.staker
                  free == {i \in 1 .. Len(Stakers[p]) :
                             Stakers[p][i].Account = ZeroAddress}
                  held == {i \in 1 .. Len(Stakers[p]) :
                             Stakers[p][i].Account = staker}
              IN  /\ r.ok
                     => /\ Stakers[p] # <<>>
                        /\ sender = RegistryAppID
                        /\ staker # ZeroAddress
                        /\ payment.sender = RegistryAppID
                        /\ payment.receiver = PoolAppIDOf(p)
                        /\ payment.amount + poolState[p].TotalAlgoStaked
                             <= poolState[p].MaxStakeAllowed
                        /\ held = {} => /\ payment.amount >= poolState[p].MinEntryStake
                                        /\ free # {}
                  /\ (r.ok /\ held = {})
                     => /\ r.pool.NumStakers = poolState[p].NumStakers + 1
                        /\ \E i \in free : r.slots[i].Account = staker
                  /\ (/\ addStakeCallAccepted(p, sender, payment)
                      /\ staker # ZeroAddress
                      /\ payment.amount + poolState[p].TotalAlgoStaked
                           <= poolState[p].MaxStakeAllowed
                      /\ held = {} /\ free = {})
                     => r.error = "PoolFull"
                  /\ ~r.ok
                     => /\ r.pool = poolState[p]
                        /\ r.slots = Stakers[p]
                        /\ r.pool.NumStakers = poolState[p].NumStakers
                        /\ r.pool.TotalAlgoStaked = poolState[p].TotalAlgoStaked)
    /\ [](\A staker \in Accounts, amount \in MinStakeAmount .. MaxStakeAmount :
            addStakeError(staker, amount) = "PoolCallFailed"
            => ~ENABLED AddStake(staker, amount))
    /\ [][\A staker \in Accounts, amount \in MinStakeAmount .. MaxStakeAmount :
            AddStake(staker, amount)
            => LET p == lastAdd'.PoolID
                   payment == [sender |-> RegistryAppID, receiver |-> PoolAppIDOf(p),
                               amount |-> lastAdd'.forwarded]
                   r == addStake(p, RegistryAppID, payment, staker)
               IN  /\ r.ok
                   /\ Stakers'[p] = r.slots
                   /\ poolState'[p] = r.pool
                   /\ \A q \in PoolIDs \ {p} :
                         Stakers'[q] = Stakers[q] /\ poolState'[q] = poolState[q]]_vars

\* the registry has just added stake to a pool through its addStake, and the
\* ledger is now full: a call for an account without a slot fails with
\* PoolFull, one above the pool's maximum fails too
C33_Witness ==
    \E p \in PoolIDs :
        /\ lastAdd.staker # ZeroAddress
        /\ lastAdd.PoolID = p
        /\ LedgerOccupied(p) = MAX_STAKERS_PER_POOL
        /\ addStake(p, RegistryAppID,
                    [sender |-> RegistryAppID, receiver |-> PoolAppIDOf(p), amount |-> 1],
                    NumAccounts + 1).error = "PoolFull"
        /\ addStake(p, RegistryAppID,
                    [sender |-> RegistryAppID, receiver |-> PoolAppIDOf(p),
                     amount |-> MaxStakeAmount],
                    lastAdd.staker).error = "MaxExceeded"

-----------------------------------------------------------------------------
(* The staker's pool set *)

\* keys of pools of another validator, under which a staker may hold stake
OtherValidatorKeys ==
    {[ID |-> ValidatorID + 1, PoolID |-> q, PoolAppID |-> 300 + q] :
        q \in 1 .. StakerPoolSetSize}

\* the pool sets a staker can have before staking with validator 1: no box,
\* or a box with keys of another validator's pools, each at most once
PoolSetCandidates ==
    {<<>>} \cup
    {s \in [1 .. StakerPoolSetSize -> {EmptyPoolKey} \cup OtherValidatorKeys] :
        \A i, j \in 1 .. StakerPoolSetSize :
            (i # j /\ s[i] = s[j]) => s[i] = EmptyPoolKey}

\* as Init, with stakers that may have staked with another validator before
InitPoolSet ==
    /\ now = StartTime
    /\ numValidators = 1
    /\ ValidatorList = <<[ID |-> ValidatorID, Owner |-> 1, Manager |-> 1,
                          NFDForInfo |-> 0, Config |-> ValidatorOneConfig,
                          Nodes |-> <<"foo">>]>>
    /\ validatorState = [NumPools |-> 1, TotalStakers |-> 0,
                         TotalAlgoStaked |-> 0, RewardTokenHeldBack |-> 0]
    /\ validatorPools = [i \in PoolIDs |->
                           IF i = 1 THEN [EmptyPoolInfo EXCEPT !.PoolAppID = PoolAppIDOf(1)]
                           ELSE EmptyPoolInfo]
    /\ StakerPoolSet \in [Accounts -> PoolSetCandidates]
    /\ poolState = [i \in PoolIDs |->
                      IF i = 1
                      THEN [created |-> TRUE, ValidatorID |-> ValidatorID,
                            PoolID |-> 1, NumStakers |-> 0, TotalAlgoStaked |-> 0,
                            MinEntryStake |-> MinEntryStake,
                            MaxStakeAllowed |-> MaxAlgoPerPool,
                            LastPayout |-> PoolOneCreated]
                      ELSE NoPool]
    /\ Stakers = [i \in PoolIDs |-> IF i = 1 THEN EmptyLedger ELSE <<>>]
    /\ balance = [i \in PoolIDs |-> IF i = 1 THEN PoolInitMbr ELSE 0]
    /\ tokenBalance = 0
    /\ tokenPayoutRatio = [PoolPctOfWhole |-> [i \in PoolIDs |-> 0],
                           UpdatedForPayout |-> 0]
    /\ paidOut = [commission |-> 0, feeSink |-> 0]
    /\ txnCount = 0
    /\ lastAdd = NoAdd
    /\ tokensReceived = [a \in Accounts |-> 0]

\* the calls that read or write the pool sets
NextPoolSet ==
    \/ AddPool
    \/ \E p \in PoolIDs : InitStorage(p)
    \/ \E a \in Accounts, amount \in MinStakeAmount .. MaxStakeAmount : AddStake(a, amount)
    \/ \E p \in PoolIDs, a \in Accounts, amount \in 0 .. MaxUnstakeAmount :
          RemoveStake(p, a, amount)

SpecPoolSet == InitPoolSet /\ [][NextPoolSet]_vars

\* the slots of staker's pool set that hold the sentinel
SentinelSlots(staker) ==
    {i \in 1 .. Len(StakerPoolSet[staker]) : StakerPoolSet[staker][i].ID = 0}

\* the first slot of poolSet from which `wanted` holds, 0 when there is none
FirstSlot(poolSet, wanted) ==
    IF \E i \in 1 .. Len(poolSet) : poolSet[i] \in wanted
    THEN CHOOSE i \in 1 .. Len(poolSet) :
            /\ poolSet[i] \in wanted
            /\ \A j \in 1 .. i - 1 : poolSet[j] \notin wanted
    ELSE 0

\* C34: a staker's pool set has StakerPoolSetSize slots (4 in the contract),
\* so it holds at most that many keys.  A registry addStake that would place
\* the staker into one more distinct pool when every slot holds a key fails
\* with StakerPoolSetFull and changes nothing.  A removal overwrites only the
\* slot of the key with the sentinel, the other keys stay at their indices;
\* an insertion writes the key into the first slot holding the sentinel, a
\* freed one included, and leaves the other slots alone.
C34_PoolSetCapacity ==
    /\ [](\A a \in Accounts :
            /\ Len(StakerPoolSet[a]) \in {0, StakerPoolSetSize}
            /\ Cardinality({i \in 1 .. Len(StakerPoolSet[a]) :
                              StakerPoolSet[a][i] # EmptyPoolKey}) <= StakerPoolSetSize)
    /\ [](\A a \in Accounts, amount \in MinStakeAmount .. MaxStakeAmount :
            LET found == findPoolForStaker(a, amount)
                set == StakerPoolSet[a]
            IN  (/\ set # <<>>
                 /\ SentinelSlots(a) = {}
                 /\ \A i, j \in 1 .. Len(set) : i # j => set[i] # set[j]
                 /\ found.ok
                 /\ found.key.PoolID # 0
                 /\ \A i \in 1 .. Len(set) : set[i] # found.key)
                => /\ addStakeError(a, amount) = "StakerPoolSetFull"
                   /\ ~ENABLED AddStake(a, amount))
    /\ [][\A p \in PoolIDs, a \in Accounts, amount \in 0 .. MaxUnstakeAmount :
            RemoveStake(p, a, amount)
            => LET set == StakerPoolSet[a]
                   i == FirstSlot(set, {poolKeyOf(p)})
               IN  /\ \A b \in Accounts \ {a} : StakerPoolSet'[b] = StakerPoolSet[b]
                   /\ Len(StakerPoolSet'[a]) = Len(set)
                   /\ IF removeStake(p, a, amount).stakerRemoved /\ i # 0
                      THEN /\ StakerPoolSet'[a][i] = EmptyPoolKey
                           /\ \A j \in 1 .. Len(set) :
                                 j # i => StakerPoolSet'[a][j] = set[j]
                      ELSE StakerPoolSet'[a] = set]_vars
    /\ [][\A a \in Accounts, amount \in MinStakeAmount .. MaxStakeAmount :
            AddStake(a, amount)
            => LET set == IF StakerPoolSet[a] = <<>> THEN EmptyPoolSet
                          ELSE StakerPoolSet[a]
                   key == findPoolForStaker(a, amount).key
                   i == FirstSlot(set, {key, EmptyPoolKey})
               IN  /\ \A b \in Accounts \ {a} : StakerPoolSet'[b] = StakerPoolSet[b]
                   /\ i # 0
                   /\ StakerPoolSet'[a][i] = key
                   /\ \A j \in 1 .. Len(set) :
                         j # i => StakerPoolSet'[a][j] = set[j]]_vars

\* a staker with a key of another validator's pool staked with validator 1,
\* took all of it out and staked again: the key is back in the freed slot,
\* every slot holds a key, and an addStake that does not fit into the pool
\* fails with StakerPoolSetFull
C34_Witness ==
    \E a \in Accounts :
        /\ lastAdd.staker = a
        /\ txnCount = 3
        /\ \A b \in Accounts \ {a} : StakerPoolSet[b] = <<>>
        /\ validatorState.TotalAlgoStaked <= MaxStakeAmount
        /\ StakerPoolSet[a] # <<>>
        /\ SentinelSlots(a) = {}
        /\ \E i \in 1 .. Len(StakerPoolSet[a]) : StakerPoolSet[a][i].ID = ValidatorID
        /\ \E i \in 1 .. Len(StakerPoolSet[a]) : StakerPoolSet[a][i] \in OtherValidatorKeys
        /\ \E amount \in MinStakeAmount .. MaxStakeAmount :
              addStakeError(a, amount) = "StakerPoolSetFull"

-----------------------------------------------------------------------------
(* Unstaking *)

-----------------------------------------------------------------------------
(* Solvency *)

\* C36: after every successful operation each pool's account holds at least
\* its totalAlgoStaked plus its minimum balance, so algoReward = B - S - M is
\* never negative.  In every payout the stake added to the ledger is at most
\* what was left of the reward after the commission (or the fee sink's
\* payment), and commission + fee sink payment + added stake is at most the
\* reward the payout started with.
C36_PoolSolvency ==
    /\ [](\A p \in PoolIDs :
            /\ balance[p] >= poolState[p].TotalAlgoStaked + minBalance(p)
            /\ algoRewardOf(p) >= 0
            /\ balance[p] >= LedgerBalance(p) + minBalance(p))
    /\ [][\A p \in PoolIDs :
            EpochBalanceUpdate(p)
            => LET initial == algoRewardOf(p)
                   validatorPay == paidOut'.commission - paidOut.commission
                   feeSinkPay == paidOut'.feeSink - paidOut.feeSink
                   increasedStake == poolState'[p].TotalAlgoStaked
                                       - poolState[p].TotalAlgoStaked
               IN  /\ validatorPay >= 0 /\ feeSinkPay >= 0 /\ increasedStake >= 0
                   /\ increasedStake = LedgerBalance(p)' - LedgerBalance(p)
                   /\ increasedStake <= initial - validatorPay - feeSinkPay
                   /\ validatorPay + feeSinkPay + increasedStake <= initial
                   /\ balance'[p] = balance[p] - validatorPay - feeSinkPay]_vars

\* stake was added, a payout gave all that was left of a reward to the
\* stakers, and a staker has since taken stake out: the pool's account holds
\* exactly its stake and its minimum balance
C36_Witness ==
    \E p \in PoolIDs :
        /\ paidOut.commission > 0
        /\ poolState[p].TotalAlgoStaked > 0
        /\ balance[p] = poolState[p].TotalAlgoStaked + minBalance(p)
        /\ \E i \in 1 .. Len(Stakers[p]) :
              /\ Stakers[p][i].TotalRewarded > 0
              /\ Stakers[p][i].Balance < MinStakeAmount + Stakers[p][i].TotalRewarded

-----------------------------------------------------------------------------
(* Payouts on a pool with two stakers *)

\* the largest reward waiting in the pool's account
MaxReward == 40

\* the time of the payout: MaxTicks blocks after the start
PayoutTime == StartTime + MaxTicks * TickSecs

\* entry times of stakes added at the start and 1, 2 and 3 blocks later
EntryTimeCandidates == {StartTime + k * TickSecs + EntryDelaySecs : k \in 0 .. MaxTicks}

\* pool #1 holds two stakers, each with a stake the pool's maximum allows
\* and added at one of the blocks since the start; a reward of up to
\* MaxReward has arrived in its account, with or without reward tokens, and
\* no payout was made yet
InitPayout ==
    \E b1, b2 \in MinEntryStake .. MaxStakeAmount, e1, e2 \in EntryTimeCandidates,
       reward \in 0 .. MaxReward, tokens \in {0, RewardPerPayout} :
        /\ b1 + b2 <= MaxAlgoPerPool
        /\ now = PayoutTime
        /\ numValidators = 1
        /\ ValidatorList = <<[ID |-> ValidatorID, Owner |-> 1, Manager |-> 1,
                              NFDForInfo |-> 0, Config |-> ValidatorOneConfig,
                              Nodes |-> <<"foo">>]>>
        /\ validatorState = [NumPools |-> 1, TotalStakers |-> 2,
                             TotalAlgoStaked |-> b1 + b2, RewardTokenHeldBack |-> 0]
        /\ validatorPools = [i \in PoolIDs |->
                               IF i = 1
                               THEN [PoolAppID |-> PoolAppIDOf(1), TotalStakers |-> 2,
                                     TotalAlgoStaked |-> b1 + b2]
                               ELSE EmptyPoolInfo]
        /\ StakerPoolSet = [a \in Accounts |->
                              IF a \in {1, 2}
                              THEN [EmptyPoolSet EXCEPT ![1] =
                                      [ID |-> ValidatorID, PoolID |-> 1,
                                       PoolAppID |-> PoolAppIDOf(1)]]
                              ELSE <<>>]
        /\ poolState = [i \in PoolIDs |->
                          IF i = 1
                          THEN [created |-> TRUE, ValidatorID |-> ValidatorID,
                                PoolID |-> 1, NumStakers |-> 2,
                                TotalAlgoStaked |-> b1 + b2,
                                MinEntryStake |-> MinEntryStake,
                                MaxStakeAllowed |-> MaxAlgoPerPool,
                                LastPayout |-> PoolOneCreated]
                          ELSE NoPool]
        /\ Stakers = [i \in PoolIDs |->
                        IF i = 1
                        THEN [EmptyLedger EXCEPT
                                ![1] = [Account |-> 1, Balance |-> b1, TotalRewarded |-> 0,
                                        RewardTokenBalance |-> 0, EntryTime |-> e1],
                                ![2] = [Account |-> 2, Balance |-> b2, TotalRewarded |-> 0,
                                        RewardTokenBalance |-> 0, EntryTime |-> e2]]
                        ELSE <<>>]
        /\ balance = [i \in PoolIDs |->
                        IF i = 1 THEN PoolInitMbr + b1 + b2 + reward ELSE 0]
        /\ tokenBalance = tokens
        /\ tokenPayoutRatio = [PoolPctOfWhole |-> [i \in PoolIDs |-> 0],
                               UpdatedForPayout |-> 0]
        /\ paidOut = [commission |-> 0, feeSink |-> 0]
        /\ txnCount = 0
        /\ lastAdd = NoAdd
        /\ tokensReceived = [a \in Accounts |-> 0]

NextPayout == \E p \in PoolIDs : EpochBalanceUpdate(p)

SpecPayout == InitPayout /\ [][NextPayout]_vars

\* C37: in an epochBalanceUpdate two stakers of the pool that were both in
\* for part of the epoch, with equal balance and equal entryTime, are
\* credited the same algo and the same tokens up to 1 unit of rounding,
\* whichever slots they hold.
C37_PartialOrderIndependent ==
    [][\A p \in PoolIDs :
         EpochBalanceUpdate(p)
         => \A i, j \in PartialEpochSlots(p) :
              (/\ Stakers[p][i].Balance = Stakers[p][j].Balance
               /\ Stakers[p][i].EntryTime = Stakers[p][j].EntryTime)
              => LET credit(k) == Stakers'[p][k].Balance - Stakers[p][k].Balance
                     tokenCredit(k) == Stakers'[p][k].RewardTokenBalance
                                         - Stakers[p][k].RewardTokenBalance
                 IN  /\ credit(i) - credit(j) \in -1 .. 1
                     /\ tokenCredit(i) - tokenCredit(j) \in -1 .. 1]_vars

-----------------------------------------------------------------------------
(* Placement by the registry and acceptance by the pool *)

\* the error of the pool's addStake called by the registry for `staker` with
\* a payment of `amount` and the pool key findPoolForStaker returned
forwardedAddStakeError(staker, amount, poolKey) ==
    LET mbrAmtLeftBehind == IF StakerPoolSet[staker] = <<>> THEN AddStakerMbr ELSE 0
    IN  addStake(poolKey.PoolID, RegistryAppID,
                 [sender |-> RegistryAppID,
                  receiver |-> validatorPools[poolKey.PoolID].PoolAppID,
                  amount |-> amount - mbrAmtLeftBehind], staker).error

\* C38: whenever findPoolForStaker returns a pool with PoolID # 0 for a
\* payment, the registry's addStake with that payment succeeds: the pool
\* (an existing one with its ledger) never rejects the forwarded payment for
\* being below MinEntryStake after the deduction of AddStakerMbr, for going
\* over MaxStakeAllowed or for having no free slot.
C38_PlacementAccepted ==
    \A staker \in Accounts, amount \in MinStakeAmount .. MaxStakeAmount :
        \A found \in {findPoolForStaker(staker, amount)} :
            (/\ found.ok
             /\ found.key.PoolID # 0
             /\ found.key.PoolAppID # 0
             /\ Stakers[found.key.PoolID] # <<>>)
            => forwardedAddStakeError(staker, amount, found.key)
                 \notin {"BelowMinimum", "MaxExceeded", "PoolFull"}

-----------------------------------------------------------------------------
(* A payout with nothing left for the stakers *)

\* C39: when after the commission (or the payment to the fee sink) both
\* algoRewardAvail and tokenRewardAvail are 0, epochBalanceUpdate succeeds,
\* sets LastPayout to now, changes no ledger slot and no total of the pool or
\* the registry and does not call stakeUpdatedViaRewards; the stake, staker
\* and token equalities hold afterwards.
C39_EarlyReturn ==
    /\ [](\A p \in PoolIDs :
            (/\ poolState[p].created
             /\ epochHasPassed(now, poolState[p].LastPayout))
            => \A r \in {epochBalanceUpdate(p)} :
                 (/\ r.algoRewardAvail > OneAlgo
                  /\ r.tokenRewardAvail = 0
                  /\ capExceeded \/ r.algoLeft = 0)
                 => r.ok /\ ~r.reported /\ r.algoLeft = 0)
    /\ [][\A p \in PoolIDs :
            EpochBalanceUpdate(p)
            => \A r \in {epochBalanceUpdate(p)} :
                 (/\ r.tokenRewardAvail = 0
                  /\ capExceeded \/ r.algoLeft = 0)
                 => /\ ~r.reported
                    /\ poolState' = [poolState EXCEPT ![p].LastPayout = now]
                    /\ Stakers' = Stakers
                    /\ validatorPools' = validatorPools
                    /\ validatorState' = validatorState
                    /\ balance'[p] = balance[p] - r.validatorPay - r.feeSinkPay
                    /\ C1_ConservationOfStake'
                    /\ C2_ConservationOfStakers'
                    /\ C8_TokenAccounting']_vars

\* a payout was just made on a pool of a validator over the protocol's
\* limit with no reward tokens to give: the whole reward went to the fee
\* sink, no commission was ever paid and no staker was ever credited
C39_Witness ==
    \E p \in PoolIDs :
        /\ poolState[p].LastPayout = now
        /\ capExceeded
        /\ paidOut.feeSink > 0
        /\ paidOut.commission = 0
        /\ tokenBalance = 0
        /\ balance[p] = poolState[p].TotalAlgoStaked + minBalance(p)
        /\ \A q \in PoolIDs : \A i \in 1 .. Len(Stakers[q]) :
              Stakers[q][i].TotalRewarded = 0

-----------------------------------------------------------------------------
(* Leaving a pool *)

\* removeStake(0) by `staker` on pool p goes through with the registry's
\* stakeRemoved and the sending of the staker's reward tokens
exitSucceeds(p, staker) ==
    \E r \in {removeStake(p, staker, 0)} :
        /\ r.ok
        /\ isValidPoolCaller(poolKeyOf(p), PoolAppIDOf(p))
        /\ stakeRemoved(poolKeyOf(p), staker, r.amount, r.stakerRemoved).ok
        /\ validatorState.RewardTokenHeldBack >= r.tokenRemoved
        /\ tokenBalance >= sentByPool(p, r.tokenRemoved)
        /\ stakeRemovedTokenRoute(poolKeyOf(p), r.tokenRemoved).ok

\* the balance the ledger of pool p records for staker
BalanceHeldBy(p, staker) ==
    SumOf([i \in 1 .. Len(Stakers[p]) |->
             IF Stakers[p][i].Account = staker THEN Stakers[p][i].Balance ELSE 0])

\* C40: in every reachable state, for every staker with an occupied ledger
\* slot, removeStake(0) by that staker succeeds, the staker is paid exactly
\* the balance recorded for them, and the registry's stakeRemoved does not
\* fail, whatever calls came before.
C40_ExitAlwaysPossible ==
    \A p \in PoolIDs, a \in Accounts :
        SlotsHeldBy(p, a) # {}
        => /\ exitSucceeds(p, a)
           /\ removeStake(p, a, 0).amount = BalanceHeldBy(p, a)

\* what holds of an exit: removeStake(0) by the holder of a slot goes
\* through, callback included, and pays the balance of the first slot the
\* staker holds
ExitOfFirstSlot ==
    /\ [](\A p \in PoolIDs : \A i \in 1 .. Len(Stakers[p]) :
            Stakers[p][i].Account # ZeroAddress
            => \E a \in {Stakers[p][i].Account} :
                 /\ exitSucceeds(p, a)
                 /\ removeStake(p, a, 0).amount
                      = Stakers[p][findStaker(Stakers[p], a, 1)].Balance)
    /\ [][\A p \in PoolIDs, a \in Accounts :
            RemoveStake(p, a, 0)
            => balance'[p] = balance[p]
                               - Stakers[p][findStaker(Stakers[p], a, 1)].Balance]_vars
====
